---------------------------- MODULE Spec2Model ----------------------------
(***************************************************************************)
(* BeyondLink: multicast receiver (LaserProtocol), device point buffers    *)
(* (LaserSource) and the coordinator (BeyondLinkSystem).                   *)
(*                                                                         *)
(* Three threads are modelled: the control thread (Start, Stop,            *)
(* SetDataCallback), the background receive thread (ReceiveThread and the  *)
(* callback it runs) and the tick thread (Update, GetStats).               *)
(*                                                                         *)
(* float values are fixed-point integers in units of 1/Scale.              *)
(***************************************************************************)
EXTENDS Integers, Sequences, FiniteSets, TLC

\* ------------------------------------------------------------------ bounds
MaxPackets == 2        \* datagrams the socket delivers in one run
MaxStarts == 2         \* Start calls that get past the running check
MaxCallbackSets == 1   \* SetDataCallback calls after Initialize
MaxTicks == 2          \* Update calls
MaxStatReads == 1      \* GetStats calls
MaxRenders == 1        \* Render and GetLaserTexture calls
InitialVertexCapacity == 2  \* points a new vertex buffer holds (10000 in the
                            \* source), scaled to the lengths of the lists
VertexMargin == 1      \* points added on expansion (5000 in the source)

\* ------------------------------------------------------- program constants
MaxSubnetID == 30      \* JoinMulticastGroups: subnetID <= 30
HintLimit == 4         \* ParsePacket: extractedDeviceID < 4
ColorMax == 255        \* ParsePacket: 0-255 colour range
IntensityCap == 4      \* ApplyScannerSimulation: (std::min)(4.0f, ...)

\* ------------------------------------------------------------ fixed point
Scale == 4 * ColorMax
One == Scale

Abs(x) == IF x < 0 THEN -x ELSE x
Min(a, b) == IF a < b THEN a ELSE b
Max(a, b) == IF a > b THEN a ELSE b
\* division truncating toward zero, as float-to-fixed rounding of a quotient
TDiv(a, b) == IF (a < 0) = (b < 0) THEN Abs(a) \div Abs(b) ELSE -(Abs(a) \div Abs(b))
FMul(a, b) == TDiv(a * b, Scale)
FDiv(a, b) == TDiv(a * Scale, b)

RECURSIVE SqrtBetween(_, _, _)
SqrtBetween(n, lo, hi) ==
    IF hi - lo <= 1 THEN lo
    ELSE LET mid == (lo + hi) \div 2
         IN IF mid * mid <= n THEN SqrtBetween(n, mid, hi) ELSE SqrtBetween(n, lo, mid)
\* std::sqrt of a fixed-point value whose square is given in units 1/Scale^2
\* (46341 is the least integer whose square exceeds 32 bits)
ISqrt(n) == SqrtBetween(n, 0, Min(n + 1, 46341))

\* ---------------------------------------------------------------- points
LaserPoint(x, y, z, r, g, b, f) ==
    [X |-> x, Y |-> y, Z |-> z, R |-> r, G |-> g, B |-> b, Focus |-> f]

\* LaserPoint::IsSamePosition: position-equal
IsSamePosition(p, q) == p.X = q.X /\ p.Y = q.Y

\* LaserPoint::IsBlankPoint: no colour
IsBlankPoint(p) == p.R = 0 /\ p.G = 0 /\ p.B = 0

\* a decoder sample: 6 floats X, Y, Focus, R, G, B
Sample(x, y, f, r, g, b) ==
    [X |-> x * Scale, Y |-> y * Scale, Focus |-> f * Scale,
     R |-> r * Scale, G |-> g * Scale, B |-> b * Scale]

\* a decoder sample whose six floats are given in units of 1/Scale
SampleU(x, y, f, r, g, b) == [X |-> x, Y |-> y, Focus |-> f, R |-> r, G |-> g, B |-> b]

Clamp01(v) == Max(0, Min(One, v))

\* a conversion that scales each channel on its own
ConvertSamplePerChannel(s) ==
    [X |-> s.X, Y |-> -s.Y,
     R |-> Clamp01(IF s.R > One THEN TDiv(s.R, ColorMax) ELSE s.R),
     G |-> Clamp01(IF s.G > One THEN TDiv(s.G, ColorMax) ELSE s.G),
     B |-> Clamp01(IF s.B > One THEN TDiv(s.B, ColorMax) ELSE s.B),
     Focus |-> TDiv(Max(0, Min(ColorMax * Scale, s.Focus)), ColorMax)]

\* ParsePacket, per-sample conversion (normalise, invert Y, clamp)
ConvertSample(s) ==
    LET big == s.R > One \/ s.G > One \/ s.B > One
        r == IF big THEN TDiv(s.R, ColorMax) ELSE s.R
        g == IF big THEN TDiv(s.G, ColorMax) ELSE s.G
        b == IF big THEN TDiv(s.B, ColorMax) ELSE s.B
    IN [X |-> s.X, Y |-> -s.Y,
        R |-> Clamp01(r), G |-> Clamp01(g), B |-> Clamp01(b),
        Focus |-> TDiv(Max(0, Min(ColorMax * Scale, s.Focus)), ColorMax)]

\* a point loop that gives point i the colour of sample i
ParsePointsNoLag(samples) ==
    [i \in 1..Len(samples) |->
        LET c == ConvertSample(samples[i])
        IN LaserPoint(c.X, c.Y, 0, c.R, c.G, c.B, c.Focus)]

\* ParsePacket, the point loop: point i takes the colour of sample i+1
ParsePoints(samples) ==
    [i \in 1..Len(samples) |->
        LET c == ConvertSample(samples[i])
        IN IF i < Len(samples)
           THEN LET n == ConvertSample(samples[i + 1])
                IN LaserPoint(c.X, c.Y, 0, n.R, n.G, n.B, n.Focus)
           ELSE LaserPoint(c.X, c.Y, 0, 0, 0, 0, 0)]

\* ------------------------------------------------- point pipeline (pure)
\* an interpolation that interpolates Z on every segment
InterpolatePointsLerpZ(points, sampleCount) ==
    IF Len(points) < 2 \/ sampleCount <= 1 THEN points
    ELSE [k \in 1..((Len(points) - 1) * sampleCount) |->
            LET i == ((k - 1) \div sampleCount) + 1
                s == (k - 1) % sampleCount
                p0 == points[i]
                p1 == points[i + 1]
                t == TDiv(s * Scale, sampleCount - 1)
                Lerp(a, b) == a + FMul(b - a, t)
            IN LaserPoint(Lerp(p0.X, p1.X), Lerp(p0.Y, p1.Y), Lerp(p0.Z, p1.Z),
                          Lerp(p0.R, p1.R), Lerp(p0.G, p1.G), Lerp(p0.B, p1.B),
                          Lerp(p0.Focus, p1.Focus))]

\* LaserSource::InterpolatePoints
InterpolatePoints(points, sampleCount) ==
    IF Len(points) < 2 \/ sampleCount <= 1 THEN points
    ELSE [k \in 1..((Len(points) - 1) * sampleCount) |->
            LET i == ((k - 1) \div sampleCount) + 1
                s == (k - 1) % sampleCount
                p0 == points[i]
                p1 == points[i + 1]
                t == TDiv(s * Scale, sampleCount - 1)
                Lerp(a, b) == a + FMul(b - a, t)
            IN LaserPoint(Lerp(p0.X, p1.X), Lerp(p0.Y, p1.Y),
                          IF p0.Z > 0 THEN Lerp(p0.Z, p1.Z) ELSE 0,
                          Lerp(p0.R, p1.R), Lerp(p0.G, p1.G), Lerp(p0.B, p1.B),
                          Lerp(p0.Focus, p1.Focus))]

\* LaserSource::SmoothVector, one component
SmoothVector(current, target, smoothing) ==
    current + FMul(target - current, One - smoothing)

\* ApplyScannerSimulation: edge-fade intensity from the velocity length
EdgeIntensity(velLength, edgeFade) ==
    LET i1 == IF velLength = 0 THEN IntensityCap * One
              ELSE Min(IntensityCap * One, TDiv(4 * edgeFade * Scale, 10 * velLength))
        i2 == FDiv(Min(IntensityCap * One, i1), Max(One, 8 * edgeFade))
        fadePercent == Max(0, edgeFade - (One \div 2)) * 2
    IN FMul(i2, One - fadePercent) + fadePercent

RECURSIVE SimulateFrom(_, _, _, _, _, _, _, _)
SimulateFrom(st, interpolated, i, velX, velY, posX, posY, smoothed) ==
    IF i > Len(interpolated) THEN smoothed
    ELSE LET point == interpolated[i]
             targetVelX == point.X - posX
             targetVelY == point.Y - posY
             moving == targetVelX # 0 \/ targetVelY # 0
             edgeFade == Max(One \div 10, st.EdgeFade)
             nVelX == IF moving THEN SmoothVector(velX, targetVelX, st.VelocitySmoothing) ELSE velX
             nVelY == IF moving THEN SmoothVector(velY, targetVelY, st.VelocitySmoothing) ELSE velY
             stepSize == TDiv(One, st.SampleCount)
             nPosX == IF moving THEN posX + FMul(nVelX, stepSize) ELSE posX
             nPosY == IF moving THEN posY + FMul(nVelY, stepSize) ELSE posY
             velLength == ISqrt(nVelX * nVelX + nVelY * nVelY)
             intensity == IF point.Z > 0 THEN One
                          ELSE IF moving THEN EdgeIntensity(velLength, edgeFade)
                          ELSE One
             scaled == point.Z = 0
             smoothedPoint ==
                 LaserPoint(nPosX, nPosY, point.Z,
                            IF scaled THEN FMul(point.R, intensity) ELSE point.R,
                            IF scaled THEN FMul(point.G, intensity) ELSE point.G,
                            IF scaled THEN FMul(point.B, intensity) ELSE point.B,
                            point.Focus)
         IN SimulateFrom(st, interpolated, i + 1, nVelX, nVelY, nPosX, nPosY,
                         Append(smoothed, smoothedPoint))

\* a simulation whose position is seeded at the origin
ApplyScannerSimulationFromOrigin(st, points) ==
    IF Len(points) < 2 THEN points
    ELSE SimulateFrom(st, InterpolatePoints(points, st.SampleCount), 1, 0, 0, 0, 0, <<>>)

\* LaserSource::ApplyScannerSimulation
ApplyScannerSimulation(st, points) ==
    IF Len(points) < 2 THEN points
    ELSE LET interpolated == InterpolatePoints(points, st.SampleCount)
         IN SimulateFrom(st, interpolated, 1, 0, 0,
                         interpolated[1].X, interpolated[1].Y, <<>>)

\* a downsampling that keeps only whole strides: floor(n / factor) points
DownsamplePointsWholeStrides(points, factor) ==
    IF factor <= 1 \/ Len(points) = 0 THEN points
    ELSE [k \in 1..(Len(points) \div factor) |-> points[(k - 1) * factor + 1]]

\* LaserSource::DownsamplePoints
DownsamplePoints(points, factor) ==
    IF factor <= 1 \/ Len(points) = 0 THEN points
    ELSE [k \in 1..((Len(points) + factor - 1) \div factor) |-> points[(k - 1) * factor + 1]]

\* GenerateHotBeams: the synthetic points emitted for one finished run
HotPoints(st, beamPoint) ==
    [k \in 1..st.BeamIntensityCount |->
        [beamPoint EXCEPT !.Z =
            IF st.BeamIntensityCount = 1 THEN 1
            ELSE Max(1, TDiv((k - 1) * Scale, st.BeamIntensityCount - 1))]]

RECURSIVE HotBeamsFrom(_, _, _, _, _, _)
HotBeamsFrom(st, points, i, consecutiveCount, lastIndex, hot) ==
    IF i > Len(points) THEN hot
    ELSE LET curr == points[i]
             prev == points[i - 1]
         IN IF IsSamePosition(curr, prev) /\ ~IsBlankPoint(curr) /\ ~IsBlankPoint(prev)
               /\ i < Len(points)
            THEN HotBeamsFrom(st, points, i + 1, consecutiveCount + 1, i - 1, hot)
            ELSE HotBeamsFrom(st, points, i + 1, 0, 0,
                     IF consecutiveCount > st.BeamRepeatThreshold
                     THEN hot \o HotPoints(st, points[lastIndex])
                     ELSE hot)

\* LaserSource::GenerateHotBeams (the new m_HotBeamPoints)
GenerateHotBeams(st, points) ==
    IF Len(points) < 2 THEN <<>>
    ELSE HotBeamsFrom(st, points, 2, 0, 0, <<>>)

RECURSIVE DedupFrom(_, _, _)
DedupFrom(points, i, result) ==
    IF i > Len(points) THEN result
    ELSE DedupFrom(points, i + 1,
                   IF IsSamePosition(points[i], result[Len(result)]) THEN result
                   ELSE Append(result, points[i]))

RECURSIVE DedupExactFrom(_, _, _)
DedupExactFrom(points, i, result) ==
    IF i > Len(points) THEN result
    ELSE DedupExactFrom(points, i + 1,
                        IF points[i] = result[Len(result)] THEN result
                        ELSE Append(result, points[i]))

\* a removal that drops a point only when it equals the kept one in every field
RemoveDuplicatePointsExact(points) ==
    IF Len(points) = 0 THEN points ELSE DedupExactFrom(points, 2, <<points[1]>>)

\* LaserSource::RemoveDuplicatePoints
RemoveDuplicatePoints(points) ==
    IF Len(points) = 0 THEN points ELSE DedupFrom(points, 2, <<points[1]>>)

\* UpdatePointList: quality switch
DownsampleFactor(quality) ==
    CASE quality = "Low" -> 8 [] quality = "Medium" -> 4
      [] quality = "High" -> 2 [] OTHER -> 1
\* a quality switch that gives the beam list the factor of the line list
DownsampleFactorBeamsAsLines(quality) ==
    CASE quality = "Low" -> 8 [] quality = "Medium" -> 4
      [] quality = "High" -> 2 [] OTHER -> 1

\* UpdatePointList: quality switch, the factor for m_BeamPoints
DownsampleFactorBeams(quality) ==
    CASE quality = "Low" -> 8 [] quality = "Medium" -> 8
      [] quality = "High" -> 2 [] OTHER -> 1

\* a pipeline whose pass-through branch removes duplicates from both lists
UpdatePointListDedupBeams(st, raw) ==
    IF Len(raw) = 0
    THEN [ProcessedPoints |-> <<>>, BeamPoints |-> <<>>, HotBeamPoints |-> <<>>]
    ELSE LET hot == GenerateHotBeams(st, raw)
             Dedup(l) == IF st.EnableBeamBrush THEN RemoveDuplicatePoints(l) ELSE l
         IN IF st.ScannerSimulation /\ Len(raw) > 1
            THEN LET interpolated == ApplyScannerSimulation(st, raw)
                 IN [ProcessedPoints |->
                         Dedup(DownsamplePoints(interpolated, DownsampleFactor(st.LaserQuality))),
                     BeamPoints |->
                         DownsamplePoints(interpolated, DownsampleFactorBeams(st.LaserQuality)),
                     HotBeamPoints |-> hot]
            ELSE [ProcessedPoints |-> Dedup(raw), BeamPoints |-> Dedup(raw),
                  HotBeamPoints |-> hot]

\* LaserSource::UpdatePointList, the body under the buffer lock: the three
\* output lists computed from the raw list
UpdatePointList(st, raw) ==
    IF Len(raw) = 0
    THEN [ProcessedPoints |-> <<>>, BeamPoints |-> <<>>, HotBeamPoints |-> <<>>]
    ELSE LET hot == GenerateHotBeams(st, raw)
             Dedup(l) == IF st.EnableBeamBrush THEN RemoveDuplicatePoints(l) ELSE l
         IN IF st.ScannerSimulation /\ Len(raw) > 1
            THEN LET interpolated == ApplyScannerSimulation(st, raw)
                 IN [ProcessedPoints |->
                         Dedup(DownsamplePoints(interpolated, DownsampleFactor(st.LaserQuality))),
                     BeamPoints |->
                         DownsamplePoints(interpolated, DownsampleFactorBeams(st.LaserQuality)),
                     HotBeamPoints |-> hot]
            ELSE [ProcessedPoints |-> Dedup(raw), BeamPoints |-> raw, HotBeamPoints |-> hot]

\* ------------------------------------------------------------ addresses
\* LaserProtocol::GetMulticastAddress, the dotted quad as its four fields
GetMulticastAddress(deviceID, subnetID) == <<239, 255, deviceID, subnetID>>

RECURSIVE Digits(_)
\* operator<< for int: the decimal digits of a non-negative number
Digits(n) == IF n < 10 THEN <<n>> ELSE Append(Digits(n \div 10), n % 10)

\* GetMulticastAddress, the characters written: the decimal fields that the
\* dots separate
MulticastAddressText(deviceID, subnetID) ==
    <<Digits(239), Digits(255), Digits(deviceID), Digits(subnetID)>>

RECURSIVE DigitsValue(_)
DigitsValue(ds) ==
    IF Len(ds) = 0 THEN 0
    ELSE DigitsValue(SubSeq(ds, 1, Len(ds) - 1)) * 10 + ds[Len(ds)]

\* inet_addr on a four-field decimal text: the four address bytes, or
\* INADDR_NONE when a field does not fit a byte
InetAddr(text) ==
    IF \A i \in 1..4 : DigitsValue(text[i]) <= 255
    THEN [i \in 1..4 |-> DigitsValue(text[i])]
    ELSE <<255, 255, 255, 255>>

NoAddress == <<0, 0, 0, 0>>          \* destAddr left zeroed: no IP_PKTINFO
UnicastAddress == <<10, 0, 0, 1>>

\* an extraction that reads the last byte of the address
ExtractDeviceIDLastByte(destAddr) ==
    IF destAddr # NoAddress /\ destAddr[1] = 239 /\ destAddr[2] = 255
    THEN destAddr[4] ELSE -1

\* ReceiveThread: device id from the destination address
ExtractDeviceID(destAddr) ==
    IF destAddr # NoAddress /\ destAddr[1] = 239 /\ destAddr[2] = 255
    THEN destAddr[3] ELSE -1

\* the loop nest with the device loop ending one short (deviceID < m_MaxDevices)
AllGroupsBelow(maxDevices) ==
    [k \in 1..(maxDevices * (MaxSubnetID + 1)) |->
        GetMulticastAddress((k - 1) \div (MaxSubnetID + 1), (k - 1) % (MaxSubnetID + 1))]

\* JoinMulticastGroups: the (device, subnet) loop nest, in iteration order
AllGroups(maxDevices) ==
    [k \in 1..((maxDevices + 1) * (MaxSubnetID + 1)) |->
        GetMulticastAddress((k - 1) \div (MaxSubnetID + 1), (k - 1) % (MaxSubnetID + 1))]

\* outcome of setsockopt(IP_ADD_MEMBERSHIP) for one group under a network
\* condition
JoinPatterns == {"all", "none", "even_subnets", "not_device0"}
JoinSucceeds(pattern, group) ==
    CASE pattern = "all" -> TRUE
      [] pattern = "none" -> FALSE
      [] pattern = "even_subnets" -> group[4] % 2 = 0
      [] OTHER -> group[3] # 0

\* LaserProtocol::JoinMulticastGroups: the new m_JoinedGroups
JoinMulticastGroups(joined, maxDevices, pattern) ==
    joined \o SelectSeq(AllGroups(maxDevices), LAMBDA g : JoinSucceeds(pattern, g))

\* ------------------------------------------------------------- decoder
\* sample lists the decoder can hold for a device
SampleBatches ==
    << <<Sample(0, 0, 0, 0, 0, 0), Sample(10, 0, 0, 0, 255, 0), Sample(10, 10, 0, 255, 0, 0)>>,
       <<Sample(5, 5, 0, 1, 1, 1)>>,
       <<>>,
       \* colours on both sides of 1.0 and of 255, negative values, Focus
       \* outside 0..255
       <<SampleU(0, 0, 0, 0, 0, 0),
         SampleU(One, 2 * One, 100 * One, 200 * One, One \div 2, One),
         SampleU(-One, -3 * One, 255 * One, One \div 2, One \div 2, One \div 2),
         SampleU(2 * One, One, 300 * One, One, One, One),
         SampleU(0, One, -5 * One, 0, 300 * One, -One),
         SampleU(One, One, One \div 2, One + 1, 0, 255 * One),
         \* a Focus within [0,1] beside channels within [0,1]
         SampleU(0, 0, One \div 2, One \div 2, 0, 0)>>,
       \* two lit points a hundredth of a unit apart
       <<SampleU(0, 0, 0, 0, 0, 0),
         SampleU(10, 0, 0, 255 * One, 255 * One, 255 * One),
         SampleU(10, 0, 0, 255 * One, 255 * One, 255 * One)>> >>

\* a datagram: destination address and the decoder content of its payload
PacketLength(batch) == Len(SampleBatches[batch]) + 1

\* linetD2 ReadLaserData: stores the payload's samples for the addressed device
ReadLaserData(store, pdev, batch) ==
    IF pdev \in DOMAIN store THEN [store EXCEPT ![pdev] = SampleBatches[batch]] ELSE store

\* linetD2 GetData: the samples held for a device (empty: zero count)
GetData(store, device) == IF device \in DOMAIN store THEN store[device] ELSE <<>>

\* ParsePacket: is the device hint accepted
HintAccepted(extractedDeviceID) == extractedDeviceID >= 0 /\ extractedDeviceID < HintLimit

\* a ParsePacket that calls the decoder without testing the function pointers
ParsePacketUnchecked(loaded, store, length, pdev, batch, extractedDeviceID) ==
    LET st2 == ReadLaserData(store, pdev, batch)
        samples == GetData(st2, extractedDeviceID)
    IN IF length # 0 /\ HintAccepted(extractedDeviceID) /\ Len(samples) > 0
       THEN [ok |-> TRUE, deviceID |-> extractedDeviceID,
             points |-> ParsePoints(samples), store |-> st2, called |-> TRUE]
       ELSE [ok |-> FALSE, deviceID |-> -1, points |-> <<>>, store |-> st2,
             called |-> TRUE]

\* a ParsePacket that does not test the decoder's point count
ParsePacketAnyCount(loaded, store, length, pdev, batch, extractedDeviceID) ==
    IF length = 0 \/ ~loaded
    THEN [ok |-> FALSE, deviceID |-> -1, points |-> <<>>, store |-> store,
          called |-> FALSE]
    ELSE LET st2 == ReadLaserData(store, pdev, batch)
             samples == GetData(st2, extractedDeviceID)
         IN IF HintAccepted(extractedDeviceID)
            THEN [ok |-> TRUE, deviceID |-> extractedDeviceID,
                  points |-> ParsePoints(samples), store |-> st2, called |-> TRUE]
            ELSE [ok |-> FALSE, deviceID |-> -1, points |-> <<>>, store |-> st2,
                  called |-> TRUE]

\* LaserProtocol::ParsePacket
ParsePacket(loaded, store, length, pdev, batch, extractedDeviceID) ==
    IF length = 0 \/ ~loaded
    THEN [ok |-> FALSE, deviceID |-> -1, points |-> <<>>, store |-> store,
          called |-> FALSE]
    ELSE LET st2 == ReadLaserData(store, pdev, batch)
             samples == GetData(st2, extractedDeviceID)
         IN IF HintAccepted(extractedDeviceID) /\ Len(samples) > 0
            THEN [ok |-> TRUE, deviceID |-> extractedDeviceID,
                  points |-> ParsePoints(samples), store |-> st2, called |-> TRUE]
            ELSE [ok |-> FALSE, deviceID |-> -1, points |-> <<>>, store |-> st2,
                  called |-> TRUE]

\* ---------------------------------------------------------------- state
VARIABLES
    m_Settings,        \* LaserSettings snapshot, read-only after construction
    dllLoaded,         \* m_ReadLaserData and m_GetData are non-null
    dllStore,          \* the decoder's per-device store
    m_Running,         \* std::atomic<bool>
    m_Socket,          \* "INVALID" or "open"
    wsaRefs,           \* WSAStartup calls not yet balanced by WSACleanup
    m_JoinedGroups,    \* joined multicast addresses, in join order
    m_ReceiveThread,   \* the std::thread object: "none", "joinable", "joined"
    m_DataCallback,    \* callback slot: [fn, writing, pending]
    m_Stats,           \* NetworkStats
    m_CallbackMutex,   \* owner or "free"
    m_StatsMutex,
    m_SourcesMutex,
    m_LaserSources,    \* device id -> LaserSource
    rx,                \* background receive thread: position and locals
    ctl,               \* control thread: position and last return value
    tick,              \* tick thread: position and locals
    env,               \* how much of each bounded input has been used
    trace              \* history of observable events

vars == <<m_Settings, dllLoaded, dllStore, m_Running, m_Socket, wsaRefs,
          m_JoinedGroups, m_ReceiveThread, m_DataCallback, m_Stats,
          m_CallbackMutex, m_StatsMutex, m_SourcesMutex, m_LaserSources,
          rx, ctl, tick, env, trace>>

protocolVars == <<m_Running, m_Socket, wsaRefs, m_JoinedGroups, m_ReceiveThread>>
lockVars == <<m_CallbackMutex, m_StatsMutex, m_SourcesMutex>>
constVars == <<m_Settings, dllLoaded>>

\* callbacks that can be registered: 1 is the coordinator's
\* OnLaserDataReceived lambda, 2 is any other consumer; 0 is the empty slot
CoordinatorCallback == 1
OtherCallback == 2
NoCallback == 0
TornCallback == -1

DeviceCounts == {2, 5}

SettingsChoices ==
    {[MaxLaserDevices |-> n, ScannerSimulation |-> sim, LaserQuality |-> "High",
      SampleCount |-> 2, VelocitySmoothing |-> One \div 2, EdgeFade |-> One \div 10,
      BeamRepeatThreshold |-> 1, BeamIntensityCount |-> 2, EnableBeamBrush |-> TRUE] :
        n \in DeviceCounts, sim \in BOOLEAN}

\* LaserSource::LaserSource
NewSource ==
    [RawPoints |-> <<>>, ProcessedPoints |-> <<>>, BeamPoints |-> <<>>,
     HotBeamPoints |-> <<>>, m_Mutex |-> "free",
     lastSet |-> <<>>, tickInput |-> <<>>, ticked |-> FALSE, cleared |-> FALSE,
     \* LaserRenderer::SourceResources of the device: the capacity of the
     \* vertex buffer held (0: nullptr), the capacity recorded, and the calls
     \* made on a null buffer
     VertexBuffer |-> InitialVertexCapacity, VertexCapacity |-> InitialVertexCapacity,
     nullUses |-> {}]

NetworkStats(p, b, l) == [PacketsReceived |-> p, BytesReceived |-> b,
                          PacketsDropped |-> 0, LastPacketSize |-> l]

RxIdle(pc) == [pc |-> pc, bytesReceived |-> 0, destAddr |-> NoAddress,
               extractedDeviceID |-> -1,
               pdev |-> 0, batch |-> 0, deviceID |-> -1, points |-> <<>>]

DeviceIndexes(st) == 0..Max(HintLimit, st.MaxLaserDevices)

\* what GetProcAddress resolved in the constructor: init is m_InitDll,
\* decode is m_ReadLaserData together with m_GetData (the pair ParsePacket
\* tests), release is m_Release; all FALSE when the module did not load
ModuleShapes == [init : BOOLEAN, decode : BOOLEAN, release : BOOLEAN]
WholeModule == [init |-> TRUE, decode |-> TRUE, release |-> TRUE]
NoModule == [init |-> FALSE, decode |-> FALSE, release |-> FALSE]

\* the constructor calls m_InitDll only when all four pointers resolved
InitDllCalled(shape) == shape.init /\ shape.decode /\ shape.release

\* state after the LaserProtocol constructor, and (initialized) after
\* BeyondLinkSystem::Initialize registered the callback and created the
\* sources of all configured devices; the module is one of the given shapes
InitWith(settingsSet, dllSet, initializedSet, shapes) ==
    /\ m_Settings \in settingsSet
    /\ dllLoaded \in dllSet
    /\ dllStore = [d \in DeviceIndexes(m_Settings) |-> <<>>]
    /\ m_Running = FALSE
    /\ m_Socket = "INVALID"
    /\ wsaRefs = 0
    /\ m_JoinedGroups = <<>>
    /\ m_ReceiveThread = "none"
    /\ \E initialized \in initializedSet :
         /\ m_DataCallback = [fn |-> IF initialized THEN CoordinatorCallback ELSE NoCallback,
                              writing |-> FALSE, pending |-> NoCallback]
         /\ m_LaserSources = IF initialized
                             THEN [d \in 0..(m_Settings.MaxLaserDevices - 1) |-> NewSource]
                             ELSE [d \in {} |-> NewSource]
         /\ ctl = [pc |-> "idle", op |-> "none", ret |-> FALSE, noop |-> FALSE,
                   m_Initialized |-> initialized]
    /\ m_Stats = NetworkStats(0, 0, 0)
    /\ m_CallbackMutex = "free"
    /\ m_StatsMutex = "free"
    /\ m_SourcesMutex = "free"
    /\ rx = RxIdle("none")
    /\ tick = [pc |-> "idle", todo |-> <<>>, snap |-> NetworkStats(0, 0, 0), snapValid |-> FALSE]
    /\ env = [packets |-> 0, starts |-> 0, cbsets |-> 0, ticks |-> 0, reads |-> 0,
              renders |-> 0]
    /\ \E shape \in {sh \in shapes : sh.decode = dllLoaded} :
         trace = [invoked |-> <<>>, decoded |-> 0, statsHist |-> {NetworkStats(0, 0, 0)},
                  dropped |-> <<>>, joinedAtStart |-> <<>>, spawned |-> 0,
                  recvAfterClear |-> 0, readCalls |-> 0, taken |-> NetworkStats(0, 0, 0),
                  module |-> shape, initCalled |-> InitDllCalled(shape),
                  released |-> 0]

\* the same with a module that loaded completely or not at all
InitFrom(settingsSet, dllSet, initializedSet) ==
    InitWith(settingsSet, dllSet, initializedSet, {WholeModule, NoModule})

Init == InitWith(SettingsChoices, BOOLEAN, BOOLEAN, ModuleShapes)

\* the process has not been ended by std::terminate
Alive == rx.pc # "aborted"

\* a lock_guard that does not wait for the mutex
CanLockNoWait(m) == TRUE

\* std::lock_guard<std::mutex>: the constructor returns once the mutex is free
CanLock(m) == m = "free"

\* a join that does not wait for the thread function
JoinReturnsAtOnce == TRUE

\* std::thread::join returns once the thread function has returned
JoinReturns == rx.pc = "exited"

\* a Start without the running check
AlreadyRunningIgnored == FALSE

\* Start: if (m_Running) return true
AlreadyRunning == m_Running

\* a receive loop that never tests the flag
LoopConditionAlways == TRUE

\* ReceiveThread: while (m_Running)
LoopCondition == m_Running

\* a leave loop that starts at the second group
LeaveAllButFirst(joined) == [dropped |-> Tail(joined), joined |-> <<>>]

\* LaserProtocol::LeaveMulticastGroups: the groups dropped, the list cleared
LeaveMulticastGroups(joined) == [dropped |-> joined, joined |-> <<>>]

\* ------------------------------------------------------- control thread
StartFailures == {"none", "wsa", "socket", "reuse", "bind", "pktinfo"}

\* LaserProtocol::Start (with InitializeWinsock, CreateSocket,
\* JoinMulticastGroups); fail names the first OS call that fails
Start(fail, pattern) ==
    /\ Alive /\ ctl.pc = "idle"
    /\ IF AlreadyRunning
       THEN /\ ctl' = [ctl EXCEPT !.op = "Start", !.ret = TRUE, !.noop = TRUE]
            /\ UNCHANGED <<protocolVars, rx, env, trace>>
       ELSE /\ env.starts < MaxStarts
            /\ env' = [env EXCEPT !.starts = @ + 1]
            /\ LET joined == IF fail = "none"
                             THEN JoinMulticastGroups(m_JoinedGroups,
                                                   m_Settings.MaxLaserDevices, pattern)
                          ELSE m_JoinedGroups
                   ok == fail = "none" /\ joined # <<>>
               IN /\ m_JoinedGroups' = joined
                  /\ m_Running' = ok
                  /\ m_Socket' = IF ok THEN "open" ELSE "INVALID"
                  /\ wsaRefs' = IF ok THEN wsaRefs + 1 ELSE wsaRefs
                  /\ m_ReceiveThread' = IF ok THEN "joinable" ELSE m_ReceiveThread
                  /\ rx' = IF ok THEN RxIdle("setup") ELSE rx
                  /\ ctl' = [ctl EXCEPT !.op = "Start", !.ret = ok, !.noop = FALSE]
                  /\ trace' = [trace EXCEPT
                        !.spawned = IF ok THEN @ + 1 ELSE @,
                        !.joinedAtStart = joined,
                        !.dropped = <<>>,
                        !.recvAfterClear = 0]
    /\ UNCHANGED <<constVars, dllStore, m_DataCallback, m_Stats, lockVars,
                   m_LaserSources, tick>>

\* LaserProtocol::Stop, up to clearing the running flag
StopCall ==
    /\ Alive /\ ctl.pc = "idle"
    /\ IF ~m_Running
       THEN /\ ctl' = [ctl EXCEPT !.op = "Stop", !.noop = TRUE]
            /\ UNCHANGED m_Running
       ELSE /\ m_Running' = FALSE
            /\ ctl' = [ctl EXCEPT !.op = "Stop", !.pc = "stop_join", !.noop = FALSE]
    /\ UNCHANGED <<constVars, dllStore, m_Socket, wsaRefs, m_JoinedGroups,
                   m_ReceiveThread, m_DataCallback, m_Stats, lockVars,
                   m_LaserSources, rx, tick, env, trace>>

\* LaserProtocol::Stop: m_ReceiveThread.join()
StopJoin ==
    /\ Alive /\ ctl.pc = "stop_join"
    /\ IF m_ReceiveThread = "joinable"
       THEN JoinReturns /\ m_ReceiveThread' = "joined"
       ELSE UNCHANGED m_ReceiveThread
    /\ ctl' = [ctl EXCEPT !.pc = "stop_leave"]
    /\ UNCHANGED <<constVars, dllStore, m_Running, m_Socket, wsaRefs, m_JoinedGroups,
                   m_DataCallback, m_Stats, lockVars, m_LaserSources, rx, tick,
                   env, trace>>

\* LaserProtocol::LeaveMulticastGroups, called from Stop
StopLeave ==
    /\ Alive /\ ctl.pc = "stop_leave"
    /\ trace' = [trace EXCEPT !.dropped = @ \o LeaveMulticastGroups(m_JoinedGroups).dropped]
    /\ m_JoinedGroups' = LeaveMulticastGroups(m_JoinedGroups).joined
    /\ ctl' = [ctl EXCEPT !.pc = "stop_close"]
    /\ UNCHANGED <<constVars, dllStore, m_Running, m_Socket, wsaRefs, m_ReceiveThread,
                   m_DataCallback, m_Stats, lockVars, m_LaserSources, rx, tick, env>>

\* a Stop that closes the socket and leaves the network library initialised
StopCloseNoCleanup ==
    /\ Alive /\ ctl.pc = "stop_close"
    /\ m_Socket' = "INVALID"
    /\ ctl' = [ctl EXCEPT !.pc = CASE ctl.op = "Destroy" -> "release"
                                    [] ctl.op = "Shutdown" -> "shutdown_clear"
                                    [] OTHER -> "idle"]
    /\ UNCHANGED <<constVars, dllStore, m_Running, wsaRefs, m_JoinedGroups,
                   m_ReceiveThread, m_DataCallback, m_Stats, lockVars, m_LaserSources,
                   rx, tick, env, trace>>

\* LaserProtocol::Stop: CloseSocket and CleanupWinsock, then return
StopClose ==
    /\ Alive /\ ctl.pc = "stop_close"
    /\ m_Socket' = "INVALID"
    /\ wsaRefs' = wsaRefs - 1
    /\ ctl' = [ctl EXCEPT !.pc = CASE ctl.op = "Destroy" -> "release"
                                    [] ctl.op = "Shutdown" -> "shutdown_clear"
                                    [] OTHER -> "idle"]
    /\ UNCHANGED <<constVars, dllStore, m_Running, m_JoinedGroups, m_ReceiveThread,
                   m_DataCallback, m_Stats, lockVars, m_LaserSources, rx, tick,
                   env, trace>>

\* LaserProtocol::~LaserProtocol: Stop(), which returns at once on a
\* receiver that is not running
DestructorCall ==
    /\ Alive /\ ctl.pc = "idle"
    /\ IF ~m_Running
       THEN /\ ctl' = [ctl EXCEPT !.op = "Destroy", !.pc = "release", !.noop = TRUE]
            /\ UNCHANGED m_Running
       ELSE /\ m_Running' = FALSE
            /\ ctl' = [ctl EXCEPT !.op = "Destroy", !.pc = "stop_join", !.noop = FALSE]
    /\ UNCHANGED <<constVars, dllStore, m_Socket, wsaRefs, m_JoinedGroups,
                   m_ReceiveThread, m_DataCallback, m_Stats, lockVars,
                   m_LaserSources, rx, tick, env, trace>>

\* LaserProtocol::~LaserProtocol: if (m_Release) m_Release(); FreeLibrary;
\* the object is gone afterwards
DestructorRelease ==
    /\ Alive /\ ctl.pc = "release"
    /\ trace' = [trace EXCEPT !.released = IF trace.module.release THEN @ + 1 ELSE @]
    /\ ctl' = [ctl EXCEPT !.pc = "destroyed"]
    /\ UNCHANGED <<constVars, dllStore, protocolVars, m_DataCallback, m_Stats,
                   lockVars, m_LaserSources, rx, tick, env>>

\* a Shutdown that clears the device map without stopping the receiver
ShutdownCallNoStop ==
    /\ Alive /\ ctl.pc \in {"idle", "destroyed"}
    /\ IF ~ctl.m_Initialized
       THEN ctl' = [ctl EXCEPT !.op = "Shutdown", !.noop = TRUE]
       ELSE ctl' = [ctl EXCEPT !.op = "Shutdown", !.noop = FALSE, !.pc = "shutdown_clear"]
    /\ UNCHANGED <<constVars, dllStore, protocolVars, m_DataCallback, m_Stats,
                   lockVars, m_LaserSources, rx, tick, env, trace>>

\* BeyondLinkSystem::Shutdown: the m_Initialized test and
\* StopNetworkReceiver, which calls LaserProtocol::Stop on a running receiver
ShutdownCall ==
    /\ Alive /\ ctl.pc \in {"idle", "destroyed"}
    /\ IF ~ctl.m_Initialized
       THEN /\ ctl' = [ctl EXCEPT !.op = "Shutdown", !.noop = TRUE]
            /\ UNCHANGED m_Running
       ELSE IF m_Running
       THEN /\ m_Running' = FALSE
            /\ ctl' = [ctl EXCEPT !.op = "Shutdown", !.noop = FALSE, !.pc = "stop_join"]
       ELSE /\ ctl' = [ctl EXCEPT !.op = "Shutdown", !.noop = FALSE,
                                  !.pc = "shutdown_clear"]
            /\ UNCHANGED m_Running
    /\ UNCHANGED <<constVars, dllStore, m_Socket, wsaRefs, m_JoinedGroups,
                   m_ReceiveThread, m_DataCallback, m_Stats, lockVars,
                   m_LaserSources, rx, tick, env, trace>>

\* Shutdown: lock_guard(m_SourcesMutex); m_LaserSources.clear()
ShutdownClear ==
    /\ Alive /\ ctl.pc = "shutdown_clear"
    /\ CanLock(m_SourcesMutex)
    /\ m_LaserSources' = [d \in {} |-> NewSource]
    /\ ctl' = [ctl EXCEPT !.pc = "shutdown_renderer"]
    /\ UNCHANGED <<constVars, dllStore, protocolVars, m_DataCallback, m_Stats,
                   lockVars, rx, tick, env, trace>>

\* Shutdown: m_Renderer->Shutdown(); m_Renderer.reset()
ShutdownRenderer ==
    /\ Alive /\ ctl.pc = "shutdown_renderer"
    /\ ctl' = [ctl EXCEPT !.pc = "shutdown_protocol"]
    /\ UNCHANGED <<constVars, dllStore, protocolVars, m_DataCallback, m_Stats,
                   lockVars, m_LaserSources, rx, tick, env, trace>>

\* Shutdown: m_Protocol.reset(), whose destructor finds the receiver stopped
\* and releases the decoder; m_Initialized = false
ShutdownRelease ==
    /\ Alive /\ ctl.pc = "shutdown_protocol"
    /\ trace' = [trace EXCEPT !.released = IF trace.module.release THEN @ + 1 ELSE @]
    /\ ctl' = [ctl EXCEPT !.pc = "destroyed", !.m_Initialized = FALSE]
    /\ UNCHANGED <<constVars, dllStore, protocolVars, m_DataCallback, m_Stats,
                   lockVars, m_LaserSources, rx, tick, env>>

\* BeyondLinkSystem::StartNetworkReceiver: LaserProtocol::Start on an
\* initialised system
StartNetworkReceiver(fail, pattern) == ctl.m_Initialized /\ Start(fail, pattern)

\* LaserProtocol::SetDataCallback: the std::function assignment begins; the
\* slot is written without m_CallbackMutex
SetDataCallbackBegin(cb) ==
    /\ Alive /\ ctl.pc = "idle"
    /\ env.cbsets < MaxCallbackSets
    /\ env' = [env EXCEPT !.cbsets = @ + 1]
    /\ m_DataCallback' = [m_DataCallback EXCEPT !.writing = TRUE, !.pending = cb]
    /\ ctl' = [ctl EXCEPT !.op = "SetDataCallback", !.pc = "setcb_write", !.noop = FALSE]
    /\ UNCHANGED <<constVars, dllStore, protocolVars, m_Stats, lockVars,
                   m_LaserSources, rx, tick, trace>>

\* LaserProtocol::SetDataCallback: the assignment completes
SetDataCallbackEnd ==
    /\ Alive /\ ctl.pc = "setcb_write"
    /\ m_DataCallback' = [fn |-> m_DataCallback.pending, writing |-> FALSE,
                          pending |-> NoCallback]
    /\ ctl' = [ctl EXCEPT !.pc = "idle"]
    /\ UNCHANGED <<constVars, dllStore, protocolVars, m_Stats, lockVars,
                   m_LaserSources, rx, tick, env, trace>>

\* ------------------------------------------------------- receive thread
\* what a read of the callback slot can return: the slot is a multi-word
\* std::function, and a read that overlaps SetDataCallback's unsynchronised
\* write sees the old value, the new value, the moved-from (empty) slot or a
\* torn object
SlotReads ==
    IF m_DataCallback.writing
    THEN {m_DataCallback.fn, m_DataCallback.pending, NoCallback, TornCallback}
    ELSE {m_DataCallback.fn}

\* an assignment that adds the batch to what the list holds
SetPointListAppend(old, points) == old \o points

\* LaserSource::SetPointList: m_RawPoints = points, the list once the
\* assignment is complete
SetPointList(old, points) == points

\* vector copy-assignment in progress: the first element already replaced
PartialCopy(old, new) ==
    IF Len(new) = 0 THEN old ELSE <<new[1]>> \o SubSeq(old, 2, Len(old))

Destinations ==
    {NoAddress, UnicastAddress}
        \cup {GetMulticastAddress(d, 0) : d \in DeviceIndexes(m_Settings)}

\* the record of the datagrams taken off the socket so far, one more of the
\* given length added
Taken(t, length) ==
    NetworkStats(t.PacketsReceived + 1, t.BytesReceived + length, length)

\* ReceiveThread: WSAIoctl(SIO_GET_EXTENSION_FUNCTION_POINTER)
RxSetup(ok) ==
    /\ rx.pc = "setup"
    /\ rx' = [rx EXCEPT !.pc = IF ok THEN "loop" ELSE "exited"]
    /\ UNCHANGED <<constVars, dllStore, protocolVars, m_DataCallback, m_Stats,
                   lockVars, m_LaserSources, ctl, tick, env, trace>>

\* ReceiveThread: the loop test, and the return when it fails
RxLoop ==
    /\ rx.pc = "loop"
    /\ rx' = [rx EXCEPT !.pc = IF LoopCondition THEN "recv" ELSE "exited"]
    /\ UNCHANGED <<constVars, dllStore, protocolVars, m_DataCallback, m_Stats,
                   lockVars, m_LaserSources, ctl, tick, env, trace>>

\* ReceiveThread: WSARecvMsg returns an error or zero bytes: continue
RxRecvError ==
    /\ rx.pc = "recv"
    /\ rx' = [rx EXCEPT !.pc = "loop"]
    /\ trace' = [trace EXCEPT !.recvAfterClear = IF m_Running THEN @ ELSE Min(@ + 1, 2)]
    /\ UNCHANGED <<constVars, dllStore, protocolVars, m_DataCallback, m_Stats,
                   lockVars, m_LaserSources, ctl, tick, env>>

\* ReceiveThread: WSARecvMsg returns a datagram; the destination address is
\* taken from IP_PKTINFO and the device id extracted from it
RxRecv(destAddr, batch) ==
    /\ rx.pc = "recv"
    /\ env.packets < MaxPackets
    /\ env' = [env EXCEPT !.packets = @ + 1]
    /\ LET id == ExtractDeviceID(destAddr)
       IN rx' = [rx EXCEPT !.pc = "stats_lock",
                           !.bytesReceived = PacketLength(batch),
                           !.destAddr = destAddr,
                           !.extractedDeviceID = id,
                           !.pdev = IF id >= 0 THEN id ELSE 0,
                           !.batch = batch]
    /\ trace' = [trace EXCEPT
                    !.recvAfterClear = IF m_Running THEN @ ELSE Min(@ + 1, 2),
                    !.taken = Taken(@, PacketLength(batch))]
    /\ UNCHANGED <<constVars, dllStore, protocolVars, m_DataCallback, m_Stats,
                   lockVars, m_LaserSources, ctl, tick>>

\* ReceiveThread: WSARecvMsg returns success with bytesReceived == 0 (a
\* datagram without payload was taken off the socket): continue
RxRecvEmpty ==
    /\ rx.pc = "recv"
    /\ env.packets < MaxPackets
    /\ env' = [env EXCEPT !.packets = @ + 1]
    /\ rx' = [rx EXCEPT !.pc = "loop"]
    /\ trace' = [trace EXCEPT
                    !.recvAfterClear = IF m_Running THEN @ ELSE Min(@ + 1, 2),
                    !.taken = Taken(@, 0)]
    /\ UNCHANGED <<constVars, dllStore, protocolVars, m_DataCallback, m_Stats,
                   lockVars, m_LaserSources, ctl, tick>>

\* ReceiveThread: lock_guard(m_StatsMutex)
RxStatsLock ==
    /\ rx.pc = "stats_lock"
    /\ CanLock(m_StatsMutex)
    /\ m_StatsMutex' = "rx"
    /\ rx' = [rx EXCEPT !.pc = "stats_packets"]
    /\ UNCHANGED <<constVars, dllStore, protocolVars, m_DataCallback, m_Stats,
                   m_CallbackMutex, m_SourcesMutex, m_LaserSources, ctl, tick,
                   env, trace>>

\* ReceiveThread: m_Stats.PacketsReceived++
RxStatsPackets ==
    /\ rx.pc = "stats_packets"
    /\ m_Stats' = [m_Stats EXCEPT !.PacketsReceived = @ + 1]
    /\ rx' = [rx EXCEPT !.pc = "stats_bytes"]
    /\ UNCHANGED <<constVars, dllStore, protocolVars, m_DataCallback, lockVars,
                   m_LaserSources, ctl, tick, env, trace>>

\* ReceiveThread: m_Stats.BytesReceived += bytesReceived
RxStatsBytes ==
    /\ rx.pc = "stats_bytes"
    /\ m_Stats' = [m_Stats EXCEPT !.BytesReceived = @ + rx.bytesReceived]
    /\ rx' = [rx EXCEPT !.pc = "stats_last"]
    /\ UNCHANGED <<constVars, dllStore, protocolVars, m_DataCallback, lockVars,
                   m_LaserSources, ctl, tick, env, trace>>

\* a statistics block whose lock outlives the block
RxStatsLastKeepLock ==
    /\ rx.pc = "stats_last"
    /\ m_Stats' = [m_Stats EXCEPT !.LastPacketSize = rx.bytesReceived]
    /\ trace' = [trace EXCEPT !.statsHist = @ \cup {m_Stats'}]
    /\ rx' = [rx EXCEPT !.pc = "parse"]
    /\ UNCHANGED <<constVars, dllStore, protocolVars, m_DataCallback, lockVars,
                   m_LaserSources, ctl, tick, env>>

\* ReceiveThread: m_Stats.LastPacketSize = bytesReceived; the lock is released
RxStatsLast ==
    /\ rx.pc = "stats_last"
    /\ m_Stats' = [m_Stats EXCEPT !.LastPacketSize = rx.bytesReceived]
    /\ m_StatsMutex' = "free"
    /\ trace' = [trace EXCEPT !.statsHist = @ \cup {m_Stats'}]
    /\ rx' = [rx EXCEPT !.pc = "parse"]
    /\ UNCHANGED <<constVars, dllStore, protocolVars, m_DataCallback,
                   m_CallbackMutex, m_SourcesMutex, m_LaserSources, ctl, tick, env>>

\* ReceiveThread: ParsePacket
RxParse ==
    /\ rx.pc = "parse"
    /\ LET r == ParsePacket(dllLoaded, dllStore, rx.bytesReceived, rx.pdev, rx.batch,
                            rx.extractedDeviceID)
       IN /\ dllStore' = r.store
          /\ IF r.ok
             THEN /\ rx' = [rx EXCEPT !.pc = "cb_lock", !.deviceID = r.deviceID,
                                      !.points = r.points]
                  /\ trace' = [trace EXCEPT !.decoded = @ + 1, !.readCalls = @ + 1]
             ELSE /\ rx' = RxIdle("loop")
                  /\ trace' = [trace EXCEPT !.readCalls = IF r.called THEN @ + 1 ELSE @]
    /\ UNCHANGED <<constVars, protocolVars, m_DataCallback, m_Stats, lockVars,
                   m_LaserSources, ctl, tick, env>>

\* ReceiveThread: lock_guard(m_CallbackMutex)
RxCallbackLock ==
    /\ rx.pc = "cb_lock"
    /\ CanLock(m_CallbackMutex)
    /\ m_CallbackMutex' = "rx"
    /\ rx' = [rx EXCEPT !.pc = "cb_test"]
    /\ UNCHANGED <<constVars, dllStore, protocolVars, m_DataCallback, m_Stats,
                   m_StatsMutex, m_SourcesMutex, m_LaserSources, ctl, tick, env, trace>>

\* ReceiveThread: if (m_DataCallback); an empty slot drops the batch
RxCallbackTest(seen) ==
    /\ rx.pc = "cb_test"
    /\ seen \in SlotReads
    /\ IF seen = NoCallback
       THEN /\ rx' = RxIdle("loop")
            /\ m_CallbackMutex' = "free"
       ELSE /\ rx' = [rx EXCEPT !.pc = "cb_invoke"]
            /\ UNCHANGED m_CallbackMutex
    /\ UNCHANGED <<constVars, dllStore, protocolVars, m_DataCallback, m_Stats,
                   m_StatsMutex, m_SourcesMutex, m_LaserSources, ctl, tick, env, trace>>

\* ReceiveThread: m_DataCallback(deviceID, points); calling an empty or torn
\* std::function ends the process (bad_function_call is not caught)
RxCallbackInvoke(seen) ==
    /\ rx.pc = "cb_invoke"
    /\ seen \in SlotReads
    /\ IF seen \in {NoCallback, TornCallback}
       THEN /\ rx' = [rx EXCEPT !.pc = "aborted"]
            /\ UNCHANGED trace
       ELSE /\ rx' = [rx EXCEPT !.pc = IF seen = CoordinatorCallback
                                       THEN "ensure" ELSE "cb_unlock"]
            /\ trace' = [trace EXCEPT !.invoked =
                            Append(@, [cb |-> seen, deviceID |-> rx.deviceID,
                                       points |-> rx.points])]
    /\ UNCHANGED <<constVars, dllStore, protocolVars, m_DataCallback, m_Stats,
                   lockVars, m_LaserSources, ctl, tick, env>>

\* the tick thread is inside LaserRenderer::RenderAll or GetLaserTexture,
\* reading m_SourceResources without a lock
ReadsSourceResources == tick.pc \in {"render", "render_draw", "texture"}

\* BeyondLinkSystem::EnsureLaserSource, called from OnLaserDataReceived; a
\* new buffer is also inserted into the renderer's m_SourceResources
\* (AddLaserSource), which has an entry for every key of m_LaserSources. An
\* insertion into the unordered_map while the tick thread reads it is
\* undefined: the process goes on or ends
RxEnsureLaserSource ==
    /\ rx.pc = "ensure"
    /\ CanLock(m_SourcesMutex)
    /\ m_LaserSources' =
         IF rx.deviceID \in DOMAIN m_LaserSources THEN m_LaserSources
         ELSE [d \in DOMAIN m_LaserSources \cup {rx.deviceID} |->
                  IF d = rx.deviceID THEN NewSource ELSE m_LaserSources[d]]
    /\ \/ rx' = [rx EXCEPT !.pc = "on_lock"]
       \/ /\ rx.deviceID \notin DOMAIN m_LaserSources /\ ReadsSourceResources
          /\ rx' = [rx EXCEPT !.pc = "aborted"]
    /\ UNCHANGED <<constVars, dllStore, protocolVars, m_DataCallback, m_Stats,
                   lockVars, ctl, tick, env, trace>>

\* OnLaserDataReceived: lock_guard(m_SourcesMutex) and m_LaserSources.find
RxOnDataLock ==
    /\ rx.pc = "on_lock"
    /\ CanLock(m_SourcesMutex)
    /\ m_SourcesMutex' = "rx"
    /\ rx' = [rx EXCEPT !.pc = IF rx.deviceID \in DOMAIN m_LaserSources
                               THEN "set_lock" ELSE "on_unlock"]
    /\ UNCHANGED <<constVars, dllStore, protocolVars, m_DataCallback, m_Stats,
                   m_CallbackMutex, m_StatsMutex, m_LaserSources, ctl, tick, env, trace>>

\* LaserSource::SetPointList: lock_guard(m_Mutex)
RxSetPointListLock ==
    /\ rx.pc = "set_lock"
    /\ CanLock(m_LaserSources[rx.deviceID].m_Mutex)
    /\ m_LaserSources' = [m_LaserSources EXCEPT ![rx.deviceID].m_Mutex = "rx"]
    /\ rx' = [rx EXCEPT !.pc = "set_copy"]
    /\ UNCHANGED <<constVars, dllStore, protocolVars, m_DataCallback, m_Stats,
                   lockVars, ctl, tick, env, trace>>

\* LaserSource::SetPointList: m_RawPoints = points, under way
RxSetPointListCopy ==
    /\ rx.pc = "set_copy"
    /\ m_LaserSources' = [m_LaserSources EXCEPT ![rx.deviceID].RawPoints =
                              PartialCopy(@, rx.points)]
    /\ rx' = [rx EXCEPT !.pc = "set_done"]
    /\ UNCHANGED <<constVars, dllStore, protocolVars, m_DataCallback, m_Stats,
                   lockVars, ctl, tick, env, trace>>

\* LaserSource::SetPointList: the assignment completes, the lock is released
RxSetPointListDone ==
    /\ rx.pc = "set_done"
    /\ m_LaserSources' = [m_LaserSources EXCEPT
                              ![rx.deviceID].RawPoints = SetPointList(@, rx.points),
                              ![rx.deviceID].lastSet = rx.points,
                              ![rx.deviceID].m_Mutex = "free"]
    /\ rx' = [rx EXCEPT !.pc = "on_unlock"]
    /\ UNCHANGED <<constVars, dllStore, protocolVars, m_DataCallback, m_Stats,
                   lockVars, ctl, tick, env, trace>>

\* OnLaserDataReceived returns: m_SourcesMutex is released
RxOnDataUnlock ==
    /\ rx.pc = "on_unlock"
    /\ m_SourcesMutex' = "free"
    /\ rx' = [rx EXCEPT !.pc = "cb_unlock"]
    /\ UNCHANGED <<constVars, dllStore, protocolVars, m_DataCallback, m_Stats,
                   m_CallbackMutex, m_StatsMutex, m_LaserSources, ctl, tick, env, trace>>

\* ReceiveThread: the callback returned, m_CallbackMutex is released
RxCallbackUnlock ==
    /\ rx.pc = "cb_unlock"
    /\ m_CallbackMutex' = "free"
    /\ rx' = RxIdle("loop")
    /\ UNCHANGED <<constVars, dllStore, protocolVars, m_DataCallback, m_Stats,
                   m_StatsMutex, m_SourcesMutex, m_LaserSources, ctl, tick, env, trace>>

\* ---------------------------------------------------------- tick thread
RECURSIVE SortedSeq(_)
\* iteration order of the std::map keyed by device id
SortedSeq(S) ==
    IF S = {} THEN <<>>
    ELSE LET m == CHOOSE x \in S : \A y \in S : x <= y
         IN <<m>> \o SortedSeq(S \ {m})

\* BeyondLinkSystem::Update: lock_guard(m_SourcesMutex), held until return
UpdateBegin ==
    /\ Alive /\ tick.pc = "idle"
    /\ env.ticks < MaxTicks
    /\ env' = [env EXCEPT !.ticks = @ + 1]
    /\ CanLock(m_SourcesMutex)
    /\ m_SourcesMutex' = "tick"
    /\ tick' = [tick EXCEPT !.pc = "upd", !.todo = SortedSeq(DOMAIN m_LaserSources),
                            !.snapValid = FALSE]
    /\ UNCHANGED <<constVars, dllStore, protocolVars, m_DataCallback, m_Stats,
                   m_CallbackMutex, m_StatsMutex, m_LaserSources, rx, ctl, trace>>

\* LaserSource::UpdatePointList: lock_guard(m_Mutex)
UpdateLock ==
    /\ Alive /\ tick.pc = "upd" /\ tick.todo # <<>>
    /\ LET d == Head(tick.todo)
       IN /\ CanLock(m_LaserSources[d].m_Mutex)
          /\ m_LaserSources' = [m_LaserSources EXCEPT ![d].m_Mutex = "tick"]
    /\ tick' = [tick EXCEPT !.pc = "upd_hot"]
    /\ UNCHANGED <<constVars, dllStore, protocolVars, m_DataCallback, m_Stats,
                   lockVars, rx, ctl, env, trace>>

\* an empty branch that leaves the hot-beam list alone
ClearOutputsKeepHot(src) ==
    [src EXCEPT !.ProcessedPoints = <<>>, !.BeamPoints = <<>>]

\* LaserSource::UpdatePointList, the branch taken on an empty raw list
ClearOutputs(src) ==
    [src EXCEPT !.ProcessedPoints = <<>>, !.BeamPoints = <<>>, !.HotBeamPoints = <<>>]

\* a tick whose hot-beam list is appended to the one of the tick before
UpdateHotBeamsAccumulate ==
    /\ Alive /\ tick.pc = "upd_hot"
    /\ LET d == Head(tick.todo)
           src == m_LaserSources[d]
       IN IF Len(src.RawPoints) = 0
          THEN /\ m_LaserSources' = [m_LaserSources EXCEPT ![d] =
                     [ClearOutputs(src) EXCEPT
                         !.m_Mutex = "free", !.tickInput = <<>>, !.ticked = TRUE,
                         !.cleared = @ \/ (/\ src.ProcessedPoints # <<>>
                                           /\ src.BeamPoints # <<>>
                                           /\ src.HotBeamPoints # <<>>)]]
               /\ tick' = [tick EXCEPT !.pc = "upd", !.todo = Tail(@)]
          ELSE /\ m_LaserSources' = [m_LaserSources EXCEPT
                     ![d].HotBeamPoints =
                         @ \o UpdatePointList(m_Settings, src.RawPoints).HotBeamPoints,
                     ![d].tickInput = src.RawPoints, ![d].ticked = FALSE]
               /\ tick' = [tick EXCEPT !.pc = "upd_run"]
    /\ UNCHANGED <<constVars, dllStore, protocolVars, m_DataCallback, m_Stats,
                   lockVars, rx, ctl, env, trace>>

\* LaserSource::UpdatePointList: the empty check and GenerateHotBeams
UpdateHotBeams ==
    /\ Alive /\ tick.pc = "upd_hot"
    /\ LET d == Head(tick.todo)
           src == m_LaserSources[d]
       IN IF Len(src.RawPoints) = 0
          THEN /\ m_LaserSources' = [m_LaserSources EXCEPT ![d] =
                     [ClearOutputs(src) EXCEPT
                         !.m_Mutex = "free", !.tickInput = <<>>, !.ticked = TRUE,
                         !.cleared = @ \/ (/\ src.ProcessedPoints # <<>>
                                           /\ src.BeamPoints # <<>>
                                           /\ src.HotBeamPoints # <<>>)]]
               /\ tick' = [tick EXCEPT !.pc = "upd", !.todo = Tail(@)]
          ELSE /\ m_LaserSources' = [m_LaserSources EXCEPT
                     ![d].HotBeamPoints = UpdatePointList(m_Settings, src.RawPoints).HotBeamPoints,
                     ![d].tickInput = src.RawPoints, ![d].ticked = FALSE]
               /\ tick' = [tick EXCEPT !.pc = "upd_run"]
    /\ UNCHANGED <<constVars, dllStore, protocolVars, m_DataCallback, m_Stats,
                   lockVars, rx, ctl, env, trace>>

\* LaserSource::UpdatePointList: simulation, downsampling and dedup; the
\* buffer lock is released on return
UpdateRun ==
    /\ Alive /\ tick.pc = "upd_run"
    /\ LET d == Head(tick.todo)
           out == UpdatePointList(m_Settings, m_LaserSources[d].RawPoints)
       IN m_LaserSources' = [m_LaserSources EXCEPT
              ![d].ProcessedPoints = out.ProcessedPoints,
              ![d].BeamPoints = out.BeamPoints,
              ![d].m_Mutex = "free", ![d].ticked = TRUE]
    /\ tick' = [tick EXCEPT !.pc = "upd", !.todo = Tail(@)]
    /\ UNCHANGED <<constVars, dllStore, protocolVars, m_DataCallback, m_Stats,
                   lockVars, rx, ctl, env, trace>>

\* BeyondLinkSystem::Update returns: m_SourcesMutex is released
UpdateEnd ==
    /\ Alive /\ tick.pc = "upd" /\ tick.todo = <<>>
    /\ m_SourcesMutex' = "free"
    /\ tick' = [tick EXCEPT !.pc = "idle"]
    /\ UNCHANGED <<constVars, dllStore, protocolVars, m_DataCallback, m_Stats,
                   m_CallbackMutex, m_StatsMutex, m_LaserSources, rx, ctl, env, trace>>

\* the application thread, between ticks: GetLaserSource(deviceID) returns
\* the buffer under m_SourcesMutex, then SetPointList(points) replaces the raw
\* list under the buffer lock
ApiSetPointList(deviceID, points) ==
    /\ Alive /\ tick.pc = "idle"
    /\ deviceID \in DOMAIN m_LaserSources
    /\ CanLock(m_SourcesMutex)
    /\ CanLock(m_LaserSources[deviceID].m_Mutex)
    /\ m_LaserSources' = [m_LaserSources EXCEPT
                              ![deviceID].RawPoints = SetPointList(@, points),
                              ![deviceID].lastSet = points]
    /\ UNCHANGED <<constVars, dllStore, protocolVars, m_DataCallback, m_Stats,
                   lockVars, rx, ctl, tick, env, trace>>

\* BeyondLinkSystem::Render: LaserRenderer::RenderAll starts to iterate
\* m_SourceResources; no lock is taken
RenderAllBegin ==
    /\ Alive /\ tick.pc = "idle"
    /\ env.renders < MaxRenders
    /\ env' = [env EXCEPT !.renders = @ + 1]
    /\ tick' = [tick EXCEPT !.pc = "render", !.todo = SortedSeq(DOMAIN m_LaserSources),
                            !.snapValid = FALSE]
    /\ UNCHANGED <<constVars, dllStore, protocolVars, m_DataCallback, m_Stats,
                   lockVars, m_LaserSources, rx, ctl, trace>>

\* LaserRenderer::RenderSource: m_SourceResources.find, then
\* lock_guard(source->GetMutex())
RenderSourceLock ==
    /\ Alive /\ tick.pc = "render" /\ tick.todo # <<>>
    /\ LET d == Head(tick.todo)
       IN /\ CanLock(m_LaserSources[d].m_Mutex)
          /\ m_LaserSources' = [m_LaserSources EXCEPT ![d].m_Mutex = "tick"]
    /\ tick' = [tick EXCEPT !.pc = "render_draw"]
    /\ UNCHANGED <<constVars, dllStore, protocolVars, m_DataCallback, m_Stats,
                   lockVars, rx, ctl, env, trace>>

\* LaserRenderer::UploadVertexData for count > 0 points: the outcomes, one
\* per result of CreateBuffer when the buffer has to grow; Map is called
\* unless the creation failed
UploadVertexData(count, vertexBuffer, bufferCapacity) ==
    IF count > bufferCapacity
    THEN {[VertexBuffer |-> count + VertexMargin, VertexCapacity |-> count + VertexMargin,
           mapped |-> TRUE],
          [VertexBuffer |-> 0, VertexCapacity |-> count + VertexMargin, mapped |-> FALSE]}
    ELSE {[VertexBuffer |-> vertexBuffer, VertexCapacity |-> bufferCapacity,
           mapped |-> TRUE]}

\* LaserRenderer::RenderSource: unless the list is empty the processed points
\* are uploaded and drawn; the buffer lock is released on return
RenderSourceDraw ==
    /\ Alive /\ tick.pc = "render_draw"
    /\ LET d == Head(tick.todo)
           src == m_LaserSources[d]
           count == Len(src.ProcessedPoints)
       IN IF count = 0
          THEN m_LaserSources' = [m_LaserSources EXCEPT ![d].m_Mutex = "free"]
          ELSE \E up \in UploadVertexData(count, src.VertexBuffer, src.VertexCapacity) :
                  m_LaserSources' = [m_LaserSources EXCEPT
                      ![d].m_Mutex = "free",
                      ![d].VertexBuffer = up.VertexBuffer,
                      ![d].VertexCapacity = up.VertexCapacity,
                      ![d].nullUses =
                          @ \cup (IF up.mapped /\ up.VertexBuffer = 0 THEN {"Map"} ELSE {})
                            \cup (IF up.VertexBuffer = 0 THEN {"Draw"} ELSE {})]
    /\ tick' = [tick EXCEPT !.pc = "render", !.todo = Tail(@)]
    /\ UNCHANGED <<constVars, dllStore, protocolVars, m_DataCallback, m_Stats,
                   lockVars, rx, ctl, env, trace>>

\* LaserRenderer::RenderAll returns
RenderAllEnd ==
    /\ Alive /\ tick.pc = "render" /\ tick.todo = <<>>
    /\ tick' = [tick EXCEPT !.pc = "idle"]
    /\ UNCHANGED <<constVars, dllStore, protocolVars, m_DataCallback, m_Stats,
                   lockVars, m_LaserSources, rx, ctl, env, trace>>

\* LaserRenderer::GetLaserTexture: m_SourceResources.find under way
GetLaserTextureFind ==
    /\ Alive /\ tick.pc = "idle"
    /\ env.renders < MaxRenders
    /\ env' = [env EXCEPT !.renders = @ + 1]
    /\ tick' = [tick EXCEPT !.pc = "texture", !.snapValid = FALSE]
    /\ UNCHANGED <<constVars, dllStore, protocolVars, m_DataCallback, m_Stats,
                   lockVars, m_LaserSources, rx, ctl, trace>>

\* LaserRenderer::GetLaserTexture returns the view or nullptr
GetLaserTextureReturn ==
    /\ Alive /\ tick.pc = "texture"
    /\ tick' = [tick EXCEPT !.pc = "idle"]
    /\ UNCHANGED <<constVars, dllStore, protocolVars, m_DataCallback, m_Stats,
                   lockVars, m_LaserSources, rx, ctl, env, trace>>

\* LaserProtocol::GetStats: return m_Stats, copied field by field without
\* m_StatsMutex; the first field
GetStatsPackets ==
    /\ Alive /\ tick.pc = "idle"
    /\ env.reads < MaxStatReads
    /\ env' = [env EXCEPT !.reads = @ + 1]
    /\ tick' = [tick EXCEPT !.pc = "stats_bytes", !.snapValid = FALSE,
                            !.snap = NetworkStats(m_Stats.PacketsReceived, 0, 0)]
    /\ UNCHANGED <<constVars, dllStore, protocolVars, m_DataCallback, m_Stats,
                   lockVars, m_LaserSources, rx, ctl, trace>>

\* LaserProtocol::GetStats: the second field
GetStatsBytes ==
    /\ Alive /\ tick.pc = "stats_bytes"
    /\ tick' = [tick EXCEPT !.pc = "stats_last", !.snap.BytesReceived = m_Stats.BytesReceived]
    /\ UNCHANGED <<constVars, dllStore, protocolVars, m_DataCallback, m_Stats,
                   lockVars, m_LaserSources, rx, ctl, env, trace>>

\* LaserProtocol::GetStats: the remaining fields, then return
GetStatsLast ==
    /\ Alive /\ tick.pc = "stats_last"
    /\ tick' = [tick EXCEPT !.pc = "idle", !.snapValid = TRUE,
                            !.snap.PacketsDropped = m_Stats.PacketsDropped,
                            !.snap.LastPacketSize = m_Stats.LastPacketSize]
    /\ UNCHANGED <<constVars, dllStore, protocolVars, m_DataCallback, m_Stats,
                   lockVars, m_LaserSources, rx, ctl, env, trace>>

\* ------------------------------------------------------- specification
\* Start under the given OS outcomes
StartWith(failures, patterns) ==
    \E fail \in failures, pattern \in patterns : Start(fail, pattern)

StopNext == StopCall \/ StopJoin \/ StopLeave \/ StopClose

DestructorNext == DestructorCall \/ DestructorRelease

ShutdownNext ==
    \/ ShutdownCall
    \/ StopJoin
    \/ StopLeave
    \/ StopClose
    \/ ShutdownClear
    \/ ShutdownRenderer
    \/ ShutdownRelease

SetDataCallbackNext ==
    \/ \E cb \in {CoordinatorCallback, OtherCallback} : SetDataCallbackBegin(cb)
    \/ SetDataCallbackEnd

\* the receive thread, with datagrams drawn from the given destinations and
\* payloads
ReceiveFrom(destinations, batches) ==
    \/ \E ok \in BOOLEAN : RxSetup(ok)
    \/ RxLoop
    \/ RxRecvError
    \/ \E destAddr \in destinations, batch \in batches : RxRecv(destAddr, batch)
    \/ RxStatsLock
    \/ RxStatsPackets
    \/ RxStatsBytes
    \/ RxStatsLast
    \/ RxParse
    \/ RxCallbackLock
    \/ \E seen \in SlotReads : RxCallbackTest(seen)
    \/ \E seen \in SlotReads : RxCallbackInvoke(seen)
    \/ RxEnsureLaserSource
    \/ RxOnDataLock
    \/ RxSetPointListLock
    \/ RxSetPointListCopy
    \/ RxSetPointListDone
    \/ RxOnDataUnlock
    \/ RxCallbackUnlock

\* the receive thread on datagrams whose payload holds no samples (batch 3):
\* the steps up to the failed decode
ReceiveUndecoded(destinations) ==
    \/ \E ok \in BOOLEAN : RxSetup(ok)
    \/ RxLoop
    \/ RxRecvError
    \/ \E destAddr \in destinations : RxRecv(destAddr, 3)
    \/ RxStatsLock
    \/ RxStatsPackets
    \/ RxStatsBytes
    \/ RxStatsLast
    \/ RxParse

UpdateNext == UpdateBegin \/ UpdateLock \/ UpdateHotBeams \/ UpdateRun \/ UpdateEnd

GetStatsNext == GetStatsPackets \/ GetStatsBytes \/ GetStatsLast

RenderNext ==
    \/ RenderAllBegin
    \/ RenderSourceLock
    \/ RenderSourceDraw
    \/ RenderAllEnd
    \/ GetLaserTextureFind
    \/ GetLaserTextureReturn

AllBatches == 1..Len(SampleBatches)

\* point lists an application hands to SetPointList: A is a lit point, B a lit
\* point elsewhere, K a blank point at A's position
RawLists ==
    LET A == LaserPoint(0, 0, 0, One, One \div 2, 0, One \div 4)
        B == LaserPoint(One, 0, 0, One, One, One, 0)
        K == LaserPoint(0, 0, 0, 0, 0, 0, 0)
    IN {<<>>, <<A, B>>, <<A, A, K>>, <<A, A, B>>, <<A, A, A, B>>, <<A, A, A, K>>,
        <<A, A, A>>, <<B, A, A, A, A, B>>}

ApiNext == \E d \in 0..1, points \in RawLists : ApiSetPointList(d, points)

Next ==
    \/ StartWith(StartFailures, JoinPatterns)
    \/ StopNext
    \/ DestructorNext
    \/ ShutdownNext
    \/ SetDataCallbackNext
    \/ ReceiveFrom(Destinations, AllBatches)
    \/ RxRecvEmpty
    \/ ApiNext
    \/ UpdateNext
    \/ RenderNext
    \/ GetStatsNext

Spec == Init /\ [][Next]_vars

\* Receiver and tick thread on a started system: two devices, datagrams for
\* both
TwoDevices == {st \in SettingsChoices : st.MaxLaserDevices = 2}
InitTick == InitFrom(TwoDevices, {TRUE}, {TRUE})
NextTick ==
    \/ StartWith({"none"}, {"all"})
    \/ ReceiveFrom({GetMulticastAddress(0, 0), GetMulticastAddress(1, 0)}, {1, 2})
    \/ UpdateNext
SpecTick == InitTick /\ [][NextTick]_vars

\* Receiver and tick thread with scanner simulation on, one device sending
\* coloured frames whose points lie close together
InitColour == InitFrom({st \in TwoDevices : st.ScannerSimulation}, {TRUE}, {TRUE})
NextColour ==
    \/ StartWith({"none"}, {"all"})
    \/ ReceiveFrom({GetMulticastAddress(0, 0)}, {1, 5})
    \/ UpdateNext
SpecColour == InitColour /\ [][NextColour]_vars

\* The point pipeline alone: an application sets raw lists and ticks, under
\* every hot-beam setting, with and without scanner simulation
PipelineSettings ==
    {[MaxLaserDevices |-> 2, ScannerSimulation |-> sim, LaserQuality |-> "High",
      SampleCount |-> 2, VelocitySmoothing |-> One \div 2, EdgeFade |-> One \div 10,
      BeamRepeatThreshold |-> threshold, BeamIntensityCount |-> count,
      EnableBeamBrush |-> TRUE] :
        sim \in BOOLEAN, threshold \in {1, 2}, count \in {1, 2, 3}}
InitPipeline == InitFrom(PipelineSettings, {TRUE}, {TRUE})
NextPipeline == ApiNext \/ UpdateNext
SpecPipeline == InitPipeline /\ [][NextPipeline]_vars

\* The point pipeline under every quality level, with and without scanner
\* simulation and beam brush; an application sets the raw list of device 0
QualityLevels == {"Low", "Medium", "High", "Ultra"}
QualitySettings ==
    {[MaxLaserDevices |-> 2, ScannerSimulation |-> sim, LaserQuality |-> quality,
      SampleCount |-> 2, VelocitySmoothing |-> One \div 2, EdgeFade |-> One \div 10,
      BeamRepeatThreshold |-> 1, BeamIntensityCount |-> 2,
      EnableBeamBrush |-> brush] :
        sim \in BOOLEAN, quality \in QualityLevels, brush \in BOOLEAN}
QualityLists ==
    LET A == LaserPoint(0, 0, 0, One, One \div 2, 0, One \div 4)
        B == LaserPoint(One, 0, 0, One, One, One, 0)
        C == LaserPoint(One, One, 0, 0, One, 0, One)
        K == LaserPoint(0, 0, 0, 0, 0, 0, 0)
    IN RawLists \cup {<<A>>, <<A, B, B, C, C, C, A, K>>, <<A, B, C, A, B, C>>}
InitQuality == InitFrom(QualitySettings, {TRUE}, {TRUE})
NextQuality ==
    \/ \E points \in QualityLists : ApiSetPointList(0, points)
    \/ UpdateNext
SpecQuality == InitQuality /\ [][NextQuality]_vars

\* Repeated ticks over one raw list: an application sets the raw list of
\* device 0 before the first tick and not again; every quality level, with
\* and without scanner simulation and beam brush
SetBeforeFirstTick ==
    /\ env.ticks = 0
    /\ \E points \in QualityLists : ApiSetPointList(0, points)
InitRepeat == InitFrom(QualitySettings, {TRUE}, {TRUE})
NextRepeat == SetBeforeFirstTick \/ UpdateNext
SpecRepeat == InitRepeat /\ [][NextRepeat]_vars

\* Renderer and tick thread: an application sets raw lists shorter and longer
\* than the vertex buffer of device 0, ticks and renders
InitUpload == InitFrom({st \in TwoDevices : ~st.ScannerSimulation}, {TRUE}, {TRUE})
NextUpload ==
    \/ \E points \in RawLists : ApiSetPointList(0, points)
    \/ UpdateNext
    \/ RenderNext
SpecUpload == InitUpload /\ [][NextUpload]_vars

\* Coordinator shutdown: an initialised or uninitialised system, the
\* receiver started or not, datagrams for device 0, Shutdown called at any
\* point and again afterwards
InitShutdown == InitFrom({st \in TwoDevices : st.ScannerSimulation}, {TRUE}, BOOLEAN)
NextShutdown ==
    \/ \E fail \in {"none", "bind"} : StartNetworkReceiver(fail, "all")
    \/ ShutdownNext
    \/ ReceiveFrom({GetMulticastAddress(0, 0)}, {2})
SpecShutdown == InitShutdown /\ [][NextShutdown]_vars

\* Interpolation and scanner simulation under every sample count, at full
\* quality and without beam brush, so that ProcessedPoints is the simulated
\* list; the raw lists hold beam-marker points (Z > 0) beside normal ones
SampleCounts == {1, 2, 3}
InterpolationSettings ==
    {[MaxLaserDevices |-> 2, ScannerSimulation |-> TRUE, LaserQuality |-> "Ultra",
      SampleCount |-> count, VelocitySmoothing |-> One \div 2, EdgeFade |-> One \div 10,
      BeamRepeatThreshold |-> 1, BeamIntensityCount |-> 2,
      EnableBeamBrush |-> FALSE] : count \in SampleCounts}
InterpolationLists ==
    LET P == LaserPoint(0, 0, 0, One, 0, 0, 0)
        Q == LaserPoint(2 * One, 0, 0, 0, One, 0, One)
        H == LaserPoint(2 * One, 2 * One, One, One, One, One, One)
        J == LaserPoint(0, 2 * One, One \div 2, 0, 0, One, 0)
    IN {<<>>, <<P>>, <<P, Q>>, <<P, H>>, <<H, P>>, <<H, J, Q>>, <<P, Q, H, P>>,
        <<P, P, Q>>}
InitInterpolation == InitFrom(InterpolationSettings, {TRUE}, {TRUE})
NextInterpolation ==
    \/ \E points \in InterpolationLists : ApiSetPointList(0, points)
    \/ UpdateNext
SpecInterpolation == InitInterpolation /\ [][NextInterpolation]_vars

\* Receiver and renderer: datagrams for device ids below and above the
\* configured count, under both device counts, while the tick thread renders
InitRender == InitFrom({st \in SettingsChoices : st.ScannerSimulation}, {TRUE}, {TRUE})
NextRender ==
    \/ StartWith({"none"}, {"all"})
    \/ ReceiveFrom({GetMulticastAddress(d, 0) : d \in {0, 2, 4}}, {2})
    \/ RenderNext
SpecRender == InitRender /\ [][NextRender]_vars

\* All three threads and every lock: the receiver delivering to device 0,
\* the tick thread in Update, Render, GetLaserTexture and
\* GetLaserSource()->SetPointList, and Start/Stop on the control thread
\* (GetStats takes no lock and is left to SpecStats)
InitLocks == InitFrom({st \in TwoDevices : st.ScannerSimulation}, {TRUE}, {TRUE})
NextLocks ==
    \/ StartWith({"none"}, {"all"})
    \/ StopNext
    \/ ReceiveFrom({GetMulticastAddress(0, 0)}, {2})
    \/ UpdateNext
    \/ RenderNext
    \/ \E points \in {<<>>} : ApiSetPointList(0, points)
SpecLocks == InitLocks /\ [][NextLocks]_vars

\* The decoder module in every shape GetProcAddress can leave it in, with
\* the receiver started, stopped and destroyed
InitDecoder ==
    InitWith({st \in TwoDevices : st.ScannerSimulation}, BOOLEAN, {TRUE}, ModuleShapes)
NextDecoder ==
    \/ StartWith({"none"}, {"all"})
    \/ StopNext
    \/ DestructorNext
    \/ ReceiveFrom({GetMulticastAddress(0, 0)}, {2, 3})
SpecDecoder == InitDecoder /\ [][NextDecoder]_vars

\* Start and Stop under every OS outcome, with the receive thread running
InitLifecycle == InitFrom({st \in TwoDevices : st.ScannerSimulation}, {TRUE}, {TRUE})
NextLifecycle ==
    \/ StartWith(StartFailures, JoinPatterns)
    \/ StopNext
    \/ ReceiveFrom({GetMulticastAddress(0, 0)}, {2})
    \/ UpdateNext
SpecLifecycle == InitLifecycle /\ [][NextLifecycle]_vars

\* Receiver and a statistics reader
InitStats == InitFrom({st \in TwoDevices : st.ScannerSimulation}, {TRUE}, {TRUE})
NextStats ==
    \/ StartWith({"none"}, {"all"})
    \/ ReceiveFrom({GetMulticastAddress(0, 0)}, {1, 2})
    \/ GetStatsNext
SpecStats == InitStats /\ [][NextStats]_vars

\* Callback registration and device addressing: every destination, every
\* device count
InitCallback == InitFrom({st \in SettingsChoices : st.ScannerSimulation}, {TRUE}, BOOLEAN)
NextCallback ==
    \/ StartWith({"none"}, {"all"})
    \/ SetDataCallbackNext
    \/ ReceiveFrom(Destinations, {1, 2, 3})
SpecCallback == InitCallback /\ [][NextCallback]_vars

\* Receiver and tick thread on datagrams that decode to points, that decode
\* to nothing and that carry no device hint
InitDelivery == InitFrom({st \in TwoDevices : ~st.ScannerSimulation}, {TRUE}, {TRUE})
NextDelivery ==
    \/ StartWith({"none"}, {"all"})
    \/ ReceiveFrom({GetMulticastAddress(0, 0), UnicastAddress}, {2, 3})
    \/ UpdateNext
SpecDelivery == InitDelivery /\ [][NextDelivery]_vars

\* Receiver with or without the decoder module: datagrams with and without
\* payload, for a configured device, an unconfigured one and a unicast address
InitDecode == InitFrom({st \in TwoDevices : st.ScannerSimulation}, BOOLEAN, {TRUE})
NextDecode ==
    \/ StartWith({"none"}, {"all"})
    \/ ReceiveFrom({GetMulticastAddress(0, 0), GetMulticastAddress(1, 0), UnicastAddress},
                   {1, 3, 4})
    \/ RxRecvEmpty
SpecDecode == InitDecode /\ [][NextDecode]_vars

\* Device identification: datagrams to every group the address generator can
\* name with a byte-sized device, and to addresses outside the scheme
AddressSubnets == {0, 7, 30}
AddressSamples ==
    {NoAddress, UnicastAddress, <<239, 254, 5, 12>>, <<238, 255, 5, 12>>,
     <<255, 239, 3, 0>>, <<239, 255, 5, 12>>}
        \cup {InetAddr(MulticastAddressText(d, sub)) : d \in 0..255, sub \in AddressSubnets}
InitAddress == InitFrom({st \in TwoDevices : st.ScannerSimulation}, {TRUE}, {TRUE})
NextAddress ==
    \/ StartWith({"none"}, {"all"})
    \/ ReceiveUndecoded(AddressSamples)
SpecAddress == InitAddress /\ [][NextAddress]_vars

\* the threads make progress inside a call; nothing forces a call to be made
FairLifecycle ==
    /\ SpecLifecycle
    /\ WF_vars(ReceiveFrom({GetMulticastAddress(0, 0)}, {2}))
    /\ WF_vars(StopJoin \/ StopLeave \/ StopClose)
    /\ WF_vars(UpdateLock \/ UpdateHotBeams \/ UpdateRun \/ UpdateEnd)

\* ================================================================ claims
SeqSet(seq) == {seq[i] : i \in 1..Len(seq)}
StopReturned == ctl.op = "Stop" /\ ctl.pc = "idle"

\* the lists handed to SetPointList for device d so far, and the initial
\* empty list
WholeBatches(d) ==
    {<<>>} \cup {e.points : e \in {x \in SeqSet(trace.invoked) : x.deviceID = d}}

\* C1: whatever the interleaving of SetPointList (receive thread) and
\* UpdatePointList (tick thread), the raw list a tick works on is one whole
\* list: the one stored by the latest completed SetPointList, or the initial
\* empty list, never a half-copied mixture; and the three output lists of a
\* finished tick are all computed from that one list.
C1_TickSeesWholeBatch ==
    \A d \in DOMAIN m_LaserSources :
        LET src == m_LaserSources[d]
        IN /\ src.m_Mutex = "tick" =>
                 src.RawPoints = src.lastSet /\ src.RawPoints \in WholeBatches(d)
           /\ (tick.pc = "upd_run" /\ Head(tick.todo) = d) => src.tickInput = src.lastSet
           /\ src.ticked =>
                 /\ src.tickInput \in WholeBatches(d)
                 /\ [ProcessedPoints |-> src.ProcessedPoints, BeamPoints |-> src.BeamPoints,
                     HotBeamPoints |-> src.HotBeamPoints]
                        = UpdatePointList(m_Settings, src.tickInput)

\* a device was ticked on one batch and has since received another
C1_Witness ==
    \E d \in DOMAIN m_LaserSources :
        LET src == m_LaserSources[d]
        IN src.ticked /\ src.tickInput # <<>> /\ src.lastSet # <<>>
           /\ src.lastSet # src.tickInput

\* C2: Update holds the device-map lock only while it collects the device
\* list: while a device's pipeline executes the tick thread does not own
\* m_SourcesMutex, so a callback for another device need not wait.
C2_MapLockFreeDuringPipeline ==
    tick.pc \in {"upd_hot", "upd_run"} => m_SourcesMutex # "tick"

\* C3: the snapshot GetStats returns equals the statistics record after a
\* whole number of counted packets; no half-applied packet update shows.
C3_StatsSnapshotConsistent ==
    tick.snapValid => tick.snap \in trace.statsHist

\* C4: Stop on a receiver that is not running changes nothing; when Stop has
\* returned the running flag is false and the background thread has
\* terminated, and from then on no callback is invoked, the decoder is not
\* called and no statistics counter changes.
C4_StopQuiesces ==
    /\ [](StopReturned => ~m_Running /\ rx.pc \in {"none", "exited"})
    /\ [][(StopReturned /\ StopReturned') =>
             /\ trace'.invoked = trace.invoked
             /\ trace'.decoded = trace.decoded
             /\ dllStore' = dllStore
             /\ m_Stats' = m_Stats]_vars
    /\ [][(StopCall /\ ~m_Running) =>
             UNCHANGED <<protocolVars, rx, dllStore, m_Stats, m_DataCallback,
                         lockVars, m_LaserSources, trace>>]_vars

\* Stop has returned on a receiver that had delivered a batch
C4_Witness ==
    StopReturned /\ ~ctl.noop /\ rx.pc = "exited" /\ Len(trace.invoked) > 0

\* C5: under fair scheduling, with receive calls that return, a Stop call on
\* a running receiver returns; once the flag is cleared the thread completes
\* at most one more receive call.
C5_StopReturns ==
    /\ [](trace.recvAfterClear <= 1)
    /\ (ctl.pc = "stop_join") ~> StopReturned

\* Stop has returned after the thread finished a receive call begun before
\* the flag was cleared
C5_Witness ==
    StopReturned /\ ~ctl.noop /\ trace.recvAfterClear = 1

\* C6: every group recorded as joined by a successful Start is left exactly
\* once by the next Stop, after the thread has been joined and before the
\* socket is closed; the joined list is empty afterwards; nothing is left
\* twice or without having been joined.
C6_GroupsLeftOnce ==
    /\ m_Running => m_JoinedGroups = trace.joinedAtStart
    /\ ctl.pc = "stop_leave" =>
          m_ReceiveThread = "joined" /\ m_Socket = "open" /\ trace.dropped = <<>>
    /\ ctl.pc = "stop_close" =>
          m_Socket = "open" /\ trace.dropped = trace.joinedAtStart /\ m_JoinedGroups = <<>>
    /\ (StopReturned /\ ~ctl.noop) =>
          trace.dropped = trace.joinedAtStart /\ m_JoinedGroups = <<>>
    /\ Cardinality(SeqSet(trace.dropped)) = Len(trace.dropped)
    /\ SeqSet(trace.dropped) \subseteq SeqSet(trace.joinedAtStart)

\* the second Stop has left the groups of the second Start
C6_Witness ==
    StopReturned /\ ~ctl.noop /\ env.starts = 2 /\ trace.dropped # <<>>

\* the groups of the addressing scheme whose join succeeds
ExpectedGroups(pattern) ==
    {g \in {<<239, 255, d, sub>> : d \in 0..m_Settings.MaxLaserDevices, sub \in 0..MaxSubnetID} :
        JoinSucceeds(pattern, g)}
Ascending(seq) ==
    \A i \in 1..(Len(seq) - 1) :
        \/ seq[i][3] < seq[i + 1][3]
        \/ seq[i][3] = seq[i + 1][3] /\ seq[i][4] < seq[i + 1][4]

C8_StartWhileRunning ==
    [][\A fail \in StartFailures, pattern \in JoinPatterns :
          (m_Running /\ Start(fail, pattern)) =>
             /\ ctl'.ret = TRUE
             /\ UNCHANGED <<protocolVars, rx, dllStore, m_Stats, m_DataCallback,
                            lockVars, m_LaserSources, trace>>]_vars

\* Start has returned from a call made while the receiver was running
C8_Witness ==
    ctl.op = "Start" /\ ctl.noop /\ ctl.ret /\ m_Running /\ rx.pc = "recv"

\* C9: every successfully decoded batch is handed exactly once to the
\* callback registered at that moment; a batch leaves the callback section
\* without an invocation only when no callback is registered.
C9_DecodedBatchInvokedOnce ==
    [][/\ (trace'.invoked # trace.invoked) =>
            /\ Len(trace'.invoked) = Len(trace.invoked) + 1
            /\ LET e == trace'.invoked[Len(trace'.invoked)]
               IN /\ e.cb \in {m_DataCallback.fn, m_DataCallback.pending} \ {NoCallback}
                  /\ e.deviceID = rx.deviceID /\ e.points = rx.points
       /\ (rx.pc \in {"cb_test", "cb_invoke"} /\ rx'.pc \in {"loop", "aborted"}) =>
            m_DataCallback.fn = NoCallback]_vars

\* C10: a device hint is valid exactly when 0 <= d < MaxDevices: the decode
\* of a datagram succeeds with deviceID = d when d is in that range and the
\* decoder holds points for d, and fails for every other hint.
C10_HintValidIffConfigured ==
    [][(rx.pc = "parse" /\ rx'.pc # "parse") =>
          LET d == rx.extractedDeviceID
          IN (rx'.pc = "cb_lock" /\ rx'.deviceID = d)
                <=> (/\ d >= 0 /\ d < m_Settings.MaxLaserDevices
                     /\ Len(GetData(dllStore', d)) > 0)]_vars

\* the datagram being parsed is one the claims call a decode failure: no
\* payload, an unknown (-1) or out-of-range hint, or no points held by the
\* decoder for the hinted device once the payload has been read
DecodeMustFail ==
    LET d == rx.extractedDeviceID
    IN \/ rx.bytesReceived = 0
       \/ d < 0 \/ d >= m_Settings.MaxLaserDevices
       \/ Len(GetData(dllStore', d)) = 0

\* C11: a datagram whose decode fails (zero count or null data, unknown or
\* out-of-range hint, zero payload length) triggers no callback and changes
\* no device buffer; the receive loop goes on to the next datagram.
C11_DecodeFailureSilent ==
    [][(rx.pc = "parse" /\ rx'.pc # "parse" /\ DecodeMustFail) =>
          /\ rx'.pc = "loop"
          /\ trace'.invoked = trace.invoked
          /\ m_LaserSources' = m_LaserSources]_vars

\* C12: every datagram taken off the socket, zero-length ones included, is
\* counted exactly once before it is decoded: outside the statistics update
\* the record equals (number, total length, last length) of the datagrams
\* taken; the counters never decrease and PacketsDropped stays 0.
C12_EveryDatagramCounted ==
    /\ [](rx.pc \notin {"stats_lock", "stats_packets", "stats_bytes", "stats_last"}
            => m_Stats = trace.taken)
    /\ [][/\ m_Stats'.PacketsReceived >= m_Stats.PacketsReceived
          /\ m_Stats'.BytesReceived >= m_Stats.BytesReceived
          /\ m_Stats'.PacketsDropped = 0]_vars

\* C13: with the decoder module missing or incomplete, Start returns false
\* and spawns no background thread.
C13_MissingDecoderFailsStart ==
    [][\A fail \in StartFailures, pattern \in JoinPatterns :
          (~dllLoaded /\ ~m_Running /\ Start(fail, pattern)) =>
             /\ ctl'.ret = FALSE /\ ~m_Running'
             /\ trace'.spawned = trace.spawned /\ rx' = rx]_vars

\* C14: with the decoder module absent every decode fails: no decoder
\* function is called, no callback is invoked and no device buffer changes,
\* while the receive loop keeps running and counts each datagram it hands to
\* the parse step.
C14_AbsentDecoderNeverDecodes ==
    /\ [](~dllLoaded =>
            /\ trace.readCalls = 0 /\ trace.decoded = 0 /\ trace.invoked = <<>>
            /\ \A d \in DOMAIN dllStore : dllStore[d] = <<>>
            /\ \A d \in DOMAIN m_LaserSources : m_LaserSources[d] = NewSource)
    /\ [][(~dllLoaded /\ rx.pc = "parse" /\ rx'.pc # "parse") =>
             /\ rx'.pc = "loop"
             /\ m_Stats.PacketsReceived >= 1
             /\ m_Stats.LastPacketSize = rx.bytesReceived]_vars

\* without the decoder, two datagrams (one at least carrying samples) have
\* been counted and dropped and the loop is back at its test
C14_Witness ==
    /\ ~dllLoaded /\ rx.pc = "loop"
    /\ m_Stats.PacketsReceived >= 2
    /\ m_Stats.BytesReceived > m_Stats.PacketsReceived

\* the destination bytes of a datagram sent to the group the address
\* generator names for a device and a subnet
GeneratedGroup ==
    [d \in 0..255, sub \in AddressSubnets |-> InetAddr(MulticastAddressText(d, sub))]

\* C15: the device index comes from the datagram's destination address
\* alone: for destination a.b.c.d it is c when a = 239 and b = 255 and -1
\* otherwise; so the address the generator writes for device d in 0..255 and
\* a subnet identifies as device d.
C15_DeviceFromDestination ==
    LET a == rx.destAddr
    IN /\ rx.extractedDeviceID = IF a[1] = 239 /\ a[2] = 255 THEN a[3] ELSE -1
       /\ \A d \in 0..255, sub \in AddressSubnets :
             a = GeneratedGroup[d, sub] => rx.extractedDeviceID = d

\* a datagram to 239.255.200.s has been identified as device 200
C15_Witness ==
    /\ rx.pc = "stats_lock" /\ rx.extractedDeviceID = 200
    /\ rx.destAddr = GeneratedGroup[200, 7]

\* the receive thread holds a decoded batch; the decoder still holds the
\* samples it was made from
HoldsBatch == rx.deviceID >= 0 /\ rx.points # <<>>
DecodedSamples == GetData(dllStore, rx.deviceID)

\* C16: a decoder result of n >= 1 samples is delivered as n points with
\* X kept, Y negated and Z = 0; point i < n-1 carries the normalised R, G, B
\* and Focus of sample i+1, and the last point carries zeros.
C16_ColourLag ==
    HoldsBatch =>
        LET samples == DecodedSamples
            n == Len(samples)
        IN /\ n >= 1 /\ Len(rx.points) = n
           /\ \A i \in 1..n :
                LET p == rx.points[i]
                IN /\ p.X = samples[i].X /\ p.Y = -samples[i].Y /\ p.Z = 0
                   /\ IF i < n
                      THEN LET c == ConvertSample(samples[i + 1])
                           IN p.R = c.R /\ p.G = c.G /\ p.B = c.B /\ p.Focus = c.Focus
                      ELSE p.R = 0 /\ p.G = 0 /\ p.B = 0 /\ p.Focus = 0

\* the three-sample example is held decoded: point 1 green, point 2 red,
\* point 3 dark, Y inverted
C16_Witness ==
    /\ HoldsBatch /\ Len(rx.points) = 3
    /\ rx.points[1].G = One /\ rx.points[1].R = 0
    /\ rx.points[2].R = One /\ rx.points[2].Y = 0
    /\ rx.points[3].Y = -10 * One /\ rx.points[3].R = 0

\* C17: per sample, when any of R, G, B exceeds 1.0 all three are divided
\* by 255, otherwise none is scaled; then each is clamped to [0,1].
C17_Normalisation ==
    HoldsBatch =>
        \A i \in 1..(Len(rx.points) - 1) :
            LET smp == DecodedSamples[i + 1]
                any == smp.R > One \/ smp.G > One \/ smp.B > One
                Norm(v) == LET w == IF any THEN TDiv(v, ColorMax) ELSE v
                           IN IF w < 0 THEN 0 ELSE IF w > One THEN One ELSE w
                p == rx.points[i]
            IN p.R = Norm(smp.R) /\ p.G = Norm(smp.G) /\ p.B = Norm(smp.B)

\* a decoded batch holds a sample scaled as a whole because of one channel
\* (R = 200, G = 0.5) and a sample left unscaled (R = G = B = 0.5)
C17_Witness ==
    /\ HoldsBatch
    /\ \E i \in 1..(Len(rx.points) - 1) :
          /\ DecodedSamples[i + 1].R = 200 * One /\ DecodedSamples[i + 1].G = One \div 2
          /\ rx.points[i].G = TDiv(One \div 2, ColorMax)
    /\ \E i \in 1..(Len(rx.points) - 1) :
          /\ DecodedSamples[i + 1].R = One \div 2
          /\ rx.points[i].R = One \div 2 /\ rx.points[i].B = One \div 2

\* a colour or Focus value within [0,1]
InUnitRange(v) == 0 <= v /\ v <= One
PointInRange(p) ==
    InUnitRange(p.R) /\ InUnitRange(p.G) /\ InUnitRange(p.B) /\ InUnitRange(p.Focus)
ListInRange(points) == \A i \in 1..Len(points) : PointInRange(points[i])

\* C18: every point of every device's RawPoints, ProcessedPoints, BeamPoints
\* and HotBeamPoints has R, G, B and Focus within [0,1], after decoding and
\* after scanner simulation.
C18_ColourRange ==
    \A d \in DOMAIN m_LaserSources :
        LET src == m_LaserSources[d]
        IN /\ ListInRange(src.RawPoints) /\ ListInRange(src.ProcessedPoints)
           /\ ListInRange(src.BeamPoints) /\ ListInRange(src.HotBeamPoints)

\* C20: a tick over an empty raw list leaves ProcessedPoints, BeamPoints and
\* HotBeamPoints all empty, under any settings and whatever the three lists
\* held before the tick.
C20_EmptyRawClearsOutputs ==
    \A d \in DOMAIN m_LaserSources :
        LET src == m_LaserSources[d]
        IN (src.ticked /\ src.tickInput = <<>>) =>
              /\ src.ProcessedPoints = <<>>
              /\ src.BeamPoints = <<>>
              /\ src.HotBeamPoints = <<>>

\* a tick over an empty raw list has cleared three non-empty output lists,
\* with scanner simulation on
C20_Witness ==
    \E d \in DOMAIN m_LaserSources :
        LET src == m_LaserSources[d]
        IN /\ src.ticked /\ src.tickInput = <<>> /\ src.cleared
           /\ src.ProcessedPoints = <<>> /\ src.HotBeamPoints = <<>>
           /\ m_Settings.ScannerSimulation

\* pair (k, k+1) of the list is an equal-position pair of two lit points
StationaryPair(raw, k) ==
    /\ k >= 1 /\ k < Len(raw)
    /\ IsSamePosition(raw[k + 1], raw[k])
    /\ ~IsBlankPoint(raw[k + 1]) /\ ~IsBlankPoint(raw[k])

\* the maximal runs of consecutive stationary pairs, as <<first point, last
\* point>>; what follows point e (a moved point, a blank point or nothing)
\* ends the run
MaximalRuns(raw) ==
    {run \in (1..Len(raw)) \X (1..Len(raw)) :
        /\ run[1] < run[2]
        /\ \A k \in run[1]..(run[2] - 1) : StationaryPair(raw, k)
        /\ ~StationaryPair(raw, run[1] - 1)
        /\ ~StationaryPair(raw, run[2])}

\* C19: after a tick over a raw list holding one run of stationary pairs
\* (ended by a position change, a blank point or the end of the list), a run
\* of exactly BeamRepeatThreshold pairs gives no hot-beam point, and a run of
\* BeamRepeatThreshold+1 pairs gives exactly BeamIntensityCount hot-beam
\* points, copies of the run's last stationary point whose markers increase
\* strictly within (0,1] and end at 1.0, for every BeamIntensityCount >= 1.
C19_HotBeamsPerRun ==
    \A d \in DOMAIN m_LaserSources :
        LET raw == m_LaserSources[d].tickInput
            hot == m_LaserSources[d].HotBeamPoints
            count == m_Settings.BeamIntensityCount
        IN \A run \in MaximalRuns(raw) :
              MaximalRuns(raw) = {run} =>
                 /\ (run[2] - run[1] = m_Settings.BeamRepeatThreshold) => hot = <<>>
                 /\ (run[2] - run[1] = m_Settings.BeamRepeatThreshold + 1) =>
                       /\ Len(hot) = count
                       /\ \A k \in 1..Len(hot) :
                             /\ \/ [hot[k] EXCEPT !.Z = 0] = raw[run[2]]
                                \/ [hot[k] EXCEPT !.Z = 0] = raw[run[2] - 1]
                             /\ hot[k].Z > 0 /\ hot[k].Z <= One
                             /\ k < Len(hot) => hot[k].Z < hot[k + 1].Z
                       /\ hot # <<>> => hot[Len(hot)].Z = One

\* the branch of UpdatePointList that skips the scanner simulation ran on
\* the raw list of device d
PassedThrough(d) ==
    /\ m_LaserSources[d].ticked
    /\ m_LaserSources[d].tickInput # <<>>
    /\ Len(m_LaserSources[d].tickInput) < 2 \/ ~m_Settings.ScannerSimulation

\* C21: with fewer than 2 raw points or scanner simulation disabled, after
\* the tick BeamPoints is the raw list, and ProcessedPoints is the raw list
\* (beam brush off) or RemoveDuplicatePoints of it (beam brush on); a
\* single-point list reaches both lists unchanged.
C21_PassThrough ==
    \A d \in DOMAIN m_LaserSources :
        PassedThrough(d) =>
            LET src == m_LaserSources[d]
                raw == src.tickInput
            IN /\ src.BeamPoints = raw
               /\ src.ProcessedPoints =
                     IF m_Settings.EnableBeamBrush THEN RemoveDuplicatePoints(raw) ELSE raw
               /\ Len(raw) = 1 => src.ProcessedPoints = raw

\* simulation is off, beam brush is on, and the raw list held repeated
\* positions: ProcessedPoints lost them, BeamPoints kept them
C21_Witness ==
    \E d \in DOMAIN m_LaserSources :
        /\ PassedThrough(d) /\ m_Settings.EnableBeamBrush
        /\ Len(m_LaserSources[d].tickInput) = 8
        /\ Len(m_LaserSources[d].BeamPoints) = 8
        /\ Len(m_LaserSources[d].ProcessedPoints) = 4

\* the scanner simulation ran on the raw list of device d
Simulated(d) ==
    /\ m_LaserSources[d].ticked
    /\ Len(m_LaserSources[d].tickInput) >= 2 /\ m_Settings.ScannerSimulation

\* the list that UpdatePointList hands to DownsamplePoints
SimulationOutput(d) == ApplyScannerSimulation(m_Settings, m_LaserSources[d].tickInput)

\* out holds exactly the points of the list at indices 0, k, 2k, ... in
\* order, ceil(n/k) of them; the list itself for k <= 1
EveryKth(out, points, k) ==
    IF k <= 1 THEN out = points
    ELSE /\ Len(out) * k >= Len(points) /\ (Len(out) - 1) * k < Len(points)
         /\ \A j \in 1..Len(out) : out[j] = points[(j - 1) * k + 1]
         /\ out[1] = points[1]

\* C22: DownsamplePoints(points, k) returns the input for k <= 1, and for
\* k >= 2 exactly the points at indices 0, k, 2k, ... in order: ceil(n/k)
\* points, the first of them the point at index 0.
C22_Downsample ==
    \A d \in DOMAIN m_LaserSources :
        Simulated(d) =>
            LET quality == m_Settings.LaserQuality
                beams == CASE quality = "Low" -> 8 [] quality = "Medium" -> 8
                           [] quality = "High" -> 2 [] quality = "Ultra" -> 1
                lines == CASE quality = "Low" -> 8 [] quality = "Medium" -> 4
                           [] quality = "High" -> 2 [] quality = "Ultra" -> 1
            IN /\ EveryKth(m_LaserSources[d].BeamPoints, SimulationOutput(d), beams)
               /\ ~m_Settings.EnableBeamBrush =>
                     EveryKth(m_LaserSources[d].ProcessedPoints, SimulationOutput(d), lines)

\* ten simulated points were downsampled by 8 to the points at indices 0 and 8
C22_Witness ==
    \E d \in DOMAIN m_LaserSources :
        /\ Simulated(d) /\ m_Settings.LaserQuality = "Low"
        /\ Len(SimulationOutput(d)) = 10
        /\ Len(m_LaserSources[d].BeamPoints) = 2
        /\ m_LaserSources[d].BeamPoints[2] = SimulationOutput(d)[9]
        /\ m_LaserSources[d].BeamPoints[2] # SimulationOutput(d)[1]

RECURSIVE IsSubsequenceFrom(_, _, _, _)
\* out[i..] can be picked, in order, from in[j..]
IsSubsequenceFrom(out, i, in, j) ==
    IF i > Len(out) THEN TRUE
    ELSE IF j > Len(in) THEN FALSE
    ELSE IF out[i] = in[j] THEN IsSubsequenceFrom(out, i + 1, in, j + 1)
    ELSE IsSubsequenceFrom(out, i, in, j + 1)

\* device d was ticked with beam brush on and with equal downsampling factors
\* for lines and beams: BeamPoints is the list RemoveDuplicatePoints was
\* given, ProcessedPoints the list it returned
Deduplicated(d) ==
    /\ m_LaserSources[d].ticked /\ m_Settings.EnableBeamBrush
    /\ m_Settings.LaserQuality # "Medium" \/ PassedThrough(d)

\* C23: RemoveDuplicatePoints returns a subsequence of its input, never
\* longer, that starts with the input's first point when there is one and
\* holds no two adjacent points of the same position; applying it again
\* changes nothing.
C23_RemoveDuplicates ==
    \A d \in DOMAIN m_LaserSources :
        Deduplicated(d) =>
            LET in == m_LaserSources[d].BeamPoints
                out == m_LaserSources[d].ProcessedPoints
            IN /\ IsSubsequenceFrom(out, 1, in, 1)
               /\ Len(out) <= Len(in)
               /\ in # <<>> => out # <<>> /\ out[1] = in[1]
               /\ \A j \in 1..(Len(out) - 1) :
                     ~(out[j].X = out[j + 1].X /\ out[j].Y = out[j + 1].Y)
               /\ RemoveDuplicatePoints(out) = out

\* a list with repeated positions, among them a blank point at the position
\* of a lit one, was reduced to fewer points
C23_Witness ==
    \E d \in DOMAIN m_LaserSources :
        /\ Deduplicated(d)
        /\ Len(m_LaserSources[d].BeamPoints) = 3
        /\ Len(m_LaserSources[d].ProcessedPoints) = 1
        /\ m_LaserSources[d].BeamPoints[3] # m_LaserSources[d].BeamPoints[1]

\* the receive thread is inside the registered callback
InCallback ==
    rx.pc \in {"ensure", "on_lock", "set_lock", "set_copy", "set_done", "on_unlock"}

\* C24: a receiver callback for device d replaces d's RawPoints by the
\* delivered batch (never a concatenation) and changes nothing else: the
\* three output lists of d stay as the last tick left them and no list of
\* another device changes.
C24_SetPointListFrame ==
    [][(InCallback /\ rx' # rx) =>
          /\ \A d \in DOMAIN m_LaserSources :
                /\ m_LaserSources'[d].ProcessedPoints = m_LaserSources[d].ProcessedPoints
                /\ m_LaserSources'[d].BeamPoints = m_LaserSources[d].BeamPoints
                /\ m_LaserSources'[d].HotBeamPoints = m_LaserSources[d].HotBeamPoints
                /\ d # rx.deviceID =>
                      m_LaserSources'[d].RawPoints = m_LaserSources[d].RawPoints
          /\ rx.pc = "set_done" =>
                m_LaserSources'[rx.deviceID].RawPoints = rx.points]_vars

\* the second delivery for device 0, one point, has replaced a three-point
\* batch whose tick output is still in place, and device 1 holds its own
\* batch
C24_Witness ==
    /\ rx.pc = "on_unlock" /\ rx.deviceID = 0
    /\ Len(trace.invoked) = 2
    /\ trace.invoked[1].deviceID = 0 /\ Len(trace.invoked[1].points) = 3
    /\ m_LaserSources[0].RawPoints = rx.points /\ Len(rx.points) = 1
    /\ m_LaserSources[0].ticked /\ Len(m_LaserSources[0].tickInput) = 3
    /\ m_LaserSources[0].ProcessedPoints # <<>>

\* the locks the receive thread owns
RxHolds ==
    {m \in {"callback", "stats", "map"} :
        \/ m = "callback" /\ m_CallbackMutex = "rx"
        \/ m = "stats" /\ m_StatsMutex = "rx"
        \/ m = "map" /\ m_SourcesMutex = "rx"}
        \cup {"buffer" : d \in {e \in DOMAIN m_LaserSources : m_LaserSources[e].m_Mutex = "rx"}}

\* C25: the receive thread owns no lock while it is inside a receive call;
\* it owns the callback lock only while it invokes the callback, and the
\* device-map lock only while a buffer is looked up or created, not while
\* the batch is stored into the buffer.
C25_ReceiverLockScope ==
    /\ rx.pc = "recv" => RxHolds = {}
    /\ "callback" \in RxHolds =>
          rx.pc \in {"cb_test", "cb_invoke", "cb_unlock"} \/ InCallback
    /\ rx.pc \in {"set_copy", "set_done"} => "map" \notin RxHolds

\* C26: SetDataCallback never writes the callback slot while the receive
\* thread reads or invokes it.
C26_RegistrationExcludesInvocation ==
    ~(m_DataCallback.writing /\ rx.pc \in {"cb_test", "cb_invoke"})

\* C28: the receive thread never changes the renderer's per-device map
\* while the tick thread reads it in RenderAll or GetLaserTexture: every
\* buffer a callback can address exists since Initialize, under every
\* MaxLaserDevices setting.
C28_ResourcesCreatedAtInitialize ==
    [][(rx.pc = "ensure" /\ rx'.pc # "ensure") =>
          /\ rx.deviceID \in DOMAIN m_LaserSources
          /\ DOMAIN m_LaserSources' = DOMAIN m_LaserSources]_vars

\* the locks a thread owns, by rank: callback, then map, then buffer; stats
\* apart
HeldBy(t) ==
    {m \in {"callback", "stats", "map"} :
        \/ m = "callback" /\ m_CallbackMutex = t
        \/ m = "stats" /\ m_StatsMutex = t
        \/ m = "map" /\ m_SourcesMutex = t}
        \cup {"buffer" : d \in {e \in DOMAIN m_LaserSources : m_LaserSources[e].m_Mutex = t}}

\* the owner of the lock the receive thread is about to take, "free" if it
\* can go on
RxNeeds ==
    CASE rx.pc = "cb_lock" -> m_CallbackMutex
      [] rx.pc = "stats_lock" -> m_StatsMutex
      [] rx.pc \in {"ensure", "on_lock"} -> m_SourcesMutex
      [] rx.pc = "set_lock" -> m_LaserSources[rx.deviceID].m_Mutex
      [] OTHER -> "free"

\* the owner of the lock the tick thread is about to take
TickNeeds ==
    IF tick.pc \in {"upd", "render"} /\ tick.todo # <<>>
    THEN m_LaserSources[Head(tick.todo)].m_Mutex
    ELSE "free"

\* the thread the control thread waits for: the receive thread, in join
CtlNeeds ==
    IF ctl.pc = "stop_join" /\ m_ReceiveThread = "joinable" /\ ~JoinReturns
    THEN "rx" ELSE "free"

\* t waits for u
WaitsFor(t, u) ==
    \/ t = "rx" /\ RxNeeds = u
    \/ t = "tick" /\ TickNeeds = u
    \/ t = "ctl" /\ CtlNeeds = u

Threads == {"rx", "tick", "ctl"}

\* a cycle of threads each waiting for the next
WaitCycle ==
    \/ \E t \in Threads : WaitsFor(t, t)
    \/ \E t, u \in Threads : t # u /\ WaitsFor(t, u) /\ WaitsFor(u, t)
    \/ \E t, u, v \in Threads :
          /\ t # u /\ u # v /\ v # t
          /\ WaitsFor(t, u) /\ WaitsFor(u, v) /\ WaitsFor(v, t)

\* C27: no interleaving of the receive thread, the tick thread and Stop
\* reaches a deadlock: locks are taken in the order callback lock, device-map
\* lock, buffer lock; the statistics lock is never owned together with
\* another lock; Stop joins the receive thread owning none of them.
C27_NoDeadlock ==
    /\ ~WaitCycle
    /\ rx.pc = "cb_lock" => HeldBy("rx") = {}
    /\ rx.pc \in {"ensure", "on_lock"} => HeldBy("rx") \subseteq {"callback"}
    /\ rx.pc = "set_lock" => HeldBy("rx") \subseteq {"callback", "map"}
    /\ tick.pc \in {"idle", "render"} => HeldBy("tick") = {}
    /\ tick.pc = "upd" => HeldBy("tick") \subseteq {"map"}
    /\ \A t \in Threads : "stats" \in HeldBy(t) => HeldBy(t) = {"stats"}
    /\ "buffer" \in HeldBy("rx") => "map" \in HeldBy("rx") /\ "callback" \in HeldBy("rx")
    /\ HeldBy("ctl") = {}

\* Stop is in join while the receive thread, owning the callback lock, waits
\* for the device-map lock that the tick thread owns inside a pipeline run
C27_Witness ==
    /\ ctl.pc = "stop_join" /\ CtlNeeds = "rx"
    /\ rx.pc = "on_lock" /\ RxNeeds = "tick" /\ m_CallbackMutex = "rx"
    /\ tick.pc = "upd_run" /\ TickNeeds = "free"

\* C29: the background thread leaves the receive loop only after Stop has
\* cleared the running flag: no receive error and no setup step inside the
\* thread ends it, so while IsRunning() is true after a successful Start the
\* thread is alive.
C29_ThreadOutlivesRunningFlag ==
    /\ [][(rx.pc # "exited" /\ rx'.pc = "exited") => ~m_Running]_vars
    /\ []((m_Running /\ ctl.pc = "idle") => rx.pc \notin {"none", "exited", "aborted"})

\* C30: the decoder is a single-owner resource: decode and queryDevice are
\* called only after initialize was called (also when the module loaded
\* incompletely) and never after release, only from the receive thread;
\* release is called at most once, after the receive thread has stopped.
C30_DecoderSingleOwner ==
    /\ [][(trace'.readCalls # trace.readCalls) =>
             /\ trace.initCalled
             /\ trace.released = 0
             /\ rx.pc = "parse" /\ rx'.pc # "parse"]_vars
    /\ [][(trace'.released # trace.released) =>
             /\ trace.released = 0
             /\ rx.pc \in {"none", "exited"}]_vars

\* C39: Focus is normalised by the rule of the colour channels: it is divided
\* by 255 only when some channel of its sample exceeds 1.0, a Focus within
\* [0,1] beside channels within [0,1] is left unscaled, and the result is
\* clamped to [0,1].
C39_FocusLikeColour ==
    HoldsBatch =>
        \A i \in 1..(Len(rx.points) - 1) :
            LET smp == DecodedSamples[i + 1]
                any == smp.R > One \/ smp.G > One \/ smp.B > One
            IN rx.points[i].Focus =
                  Clamp01(IF any THEN TDiv(smp.Focus, ColorMax) ELSE smp.Focus)

\* C34: through the receiver path a batch delivered to a device buffer is
\* never empty and never carries a negative device id; hence a device's
\* RawPoints, once non-empty, stays non-empty, and a device ticked on a
\* non-empty list is never ticked on an empty one afterwards.
C34_DeliveredBatchNonEmpty ==
    /\ [](/\ \A e \in SeqSet(trace.invoked) : e.points # <<>> /\ e.deviceID >= 0
          /\ InCallback => rx.points # <<>> /\ rx.deviceID >= 0)
    /\ [][\A d \in DOMAIN m_LaserSources :
            LET src == m_LaserSources[d]
            IN /\ src.RawPoints # <<>> =>
                     /\ d \in DOMAIN m_LaserSources'
                     /\ m_LaserSources'[d].RawPoints # <<>>
               /\ (src.ticked /\ src.tickInput # <<>>) =>
                     (m_LaserSources'[d].ticked => m_LaserSources'[d].tickInput # <<>>)]_vars

\* device 0 was ticked on a delivered batch and a datagram that the decoder
\* gave no points for has been dropped since the receiver started
C34_Witness ==
    /\ 0 \in DOMAIN m_LaserSources
    /\ m_LaserSources[0].ticked /\ m_LaserSources[0].tickInput # <<>>
    /\ m_LaserSources[0].RawPoints # <<>>
    /\ trace.decoded = 1 /\ trace.readCalls = 2 /\ rx.pc = "loop"

\* the list InterpolatePoints returns for the raw list device d was ticked on
Interpolated(d) == InterpolatePoints(m_LaserSources[d].tickInput, m_Settings.SampleCount)

\* C35: for n >= 2 raw points and any SampleCount >= 1 interpolation yields
\* exactly (n-1) * SampleCount points: per consecutive pair SampleCount
\* evenly spaced linear samples, in order, the first of them the segment's
\* start point.
C35_InterpolationCount ==
    \A d \in DOMAIN m_LaserSources :
        Simulated(d) =>
            LET raw == m_LaserSources[d].tickInput
                n == Len(raw)
                count == m_Settings.SampleCount
                out == Interpolated(d)
            IN /\ Len(out) = (n - 1) * count
               /\ \A i \in 1..(n - 1) :
                     /\ out[(i - 1) * count + 1] = raw[i]
                     /\ \A s \in 1..(count - 2) :
                           LET k == (i - 1) * count + s
                           IN /\ out[k + 1].X - out[k].X = out[k + 2].X - out[k + 1].X
                              /\ out[k + 1].Y - out[k].Y = out[k + 2].Y - out[k + 1].Y
                              /\ out[k + 1].R - out[k].R = out[k + 2].R - out[k + 1].R
                              /\ out[k + 1].Focus - out[k].Focus
                                    = out[k + 2].Focus - out[k + 1].Focus

\* C36: in the interpolated list every sample of a segment whose start point
\* has Z = 0 has Z = 0, even when the end point has Z > 0; Z is linearly
\* interpolated only on segments whose start point has Z > 0. Read off the
\* interpolated list and off ProcessedPoints, which at full quality without
\* beam brush holds the simulated list, point for point.
C36_MarkerHeldAtZero ==
    \A d \in DOMAIN m_LaserSources :
        Simulated(d) =>
            LET raw == m_LaserSources[d].tickInput
                count == m_Settings.SampleCount
            IN \A i \in 1..(Len(raw) - 1) : \A s \in 0..(count - 1) :
                  LET k == (i - 1) * count + s + 1
                      t == IF count = 1 THEN 0 ELSE TDiv(s * Scale, count - 1)
                      z == IF raw[i].Z > 0
                           THEN raw[i].Z + FMul(raw[i + 1].Z - raw[i].Z, t)
                           ELSE 0
                  IN /\ Interpolated(d)[k].Z = z
                     /\ m_LaserSources[d].ProcessedPoints[k].Z = z

\* three samples per segment: the segment from a normal point to a beam
\* marker is all Z = 0, the segment from the marker back to a normal point
\* passes through Z = 0.5
C36_Witness ==
    \E d \in DOMAIN m_LaserSources :
        /\ Simulated(d) /\ m_Settings.SampleCount = 3
        /\ Len(m_LaserSources[d].tickInput) = 4
        /\ m_LaserSources[d].tickInput[2].Z = 0 /\ m_LaserSources[d].tickInput[3].Z = One
        /\ m_LaserSources[d].ProcessedPoints[6].Z = 0
        /\ m_LaserSources[d].ProcessedPoints[7].Z = One
        /\ m_LaserSources[d].ProcessedPoints[8].Z = One \div 2

\* C37: scanner simulation outputs one point per interpolated point, in
\* order, with Focus and Z unchanged and R, G, B of Z > 0 points unchanged;
\* the first output point keeps the position and colour of the first
\* interpolated point. Read off ProcessedPoints at full quality without beam
\* brush.
C37_SimulationFrame ==
    \A d \in DOMAIN m_LaserSources :
        Simulated(d) =>
            LET in == Interpolated(d)
                out == m_LaserSources[d].ProcessedPoints
            IN /\ Len(out) = Len(in)
               /\ \A k \in 1..Len(in) :
                     /\ out[k].Focus = in[k].Focus /\ out[k].Z = in[k].Z
                     /\ in[k].Z > 0 =>
                           out[k].R = in[k].R /\ out[k].G = in[k].G /\ out[k].B = in[k].B
               /\ out[1] = in[1]

\* the simulated list starts at a beam marker away from the origin; a later
\* normal point was moved and faded, a later marker point kept its colour
C37_Witness ==
    \E d \in DOMAIN m_LaserSources :
        /\ Simulated(d)
        /\ Interpolated(d)[1].X # 0 /\ Interpolated(d)[1].Z > 0
        /\ \E k \in 2..Len(Interpolated(d)) :
              /\ Interpolated(d)[k].Z = 0
              /\ m_LaserSources[d].ProcessedPoints[k].X # Interpolated(d)[k].X
              /\ m_LaserSources[d].ProcessedPoints[k].R # Interpolated(d)[k].R
        /\ \E k \in 2..Len(Interpolated(d)) :
              /\ Interpolated(d)[k].Z > 0 /\ Interpolated(d)[k].B > 0
              /\ m_LaserSources[d].ProcessedPoints[k].X # Interpolated(d)[k].X

\* C33: a tick does not modify RawPoints and carries no state to the next
\* tick. No raw list is set after the first tick began, so from the second
\* tick on every tick of a device runs on the list of the tick before: it
\* leaves ProcessedPoints, BeamPoints and HotBeamPoints as they were (the
\* hot-beam list is replaced, not appended to), under every simulation,
\* quality and beam-brush setting.
C33_TickIdempotent ==
    [][tick' # tick =>
          \A d \in DOMAIN m_LaserSources :
              LET src == m_LaserSources[d]
                  new == m_LaserSources'[d]
                  ticking == tick.pc \in {"upd_hot", "upd_run"} /\ Head(tick.todo) = d
              IN /\ new.RawPoints = src.RawPoints
                 /\ (ticking /\ tick.pc = "upd_hot" /\ src.ticked
                        /\ src.tickInput = src.RawPoints) =>
                       new.HotBeamPoints = src.HotBeamPoints
                 /\ (ticking /\ env.ticks >= 2) =>
                       /\ new.ProcessedPoints = src.ProcessedPoints
                       /\ new.BeamPoints = src.BeamPoints
                       /\ new.HotBeamPoints = src.HotBeamPoints]_vars

\* two ticks have run over a raw list of eight points with two runs of
\* repeated positions: the hot-beam list holds the points of one run, once
C33_Witness ==
    /\ env.ticks >= 2 /\ tick.pc = "idle"
    /\ m_LaserSources[0].ticked /\ Len(m_LaserSources[0].tickInput) = 8
    /\ m_LaserSources[0].RawPoints = m_LaserSources[0].tickInput
    /\ Len(m_LaserSources[0].HotBeamPoints) = m_Settings.BeamIntensityCount
    /\ m_LaserSources[0].ProcessedPoints # <<>>

\* the points of the list at indices 0, k, 2k, ...
Stride(points, k) ==
    [j \in 1..((Len(points) + k - 1) \div k) |-> points[(j - 1) * k + 1]]

\* C38: with simulation on and at least two raw points, ProcessedPoints
\* before the optional dedup is every Nth point of the simulated list from
\* index 0, N = 8, 4, 2, 1 for Low, Medium, High, Ultra, and BeamPoints is
\* every Mth point, M = 8, 8, 2, 1; beam-brush dedup is applied afterwards,
\* to ProcessedPoints only.
C38_QualityFactors ==
    \A d \in DOMAIN m_LaserSources :
        Simulated(d) =>
            LET quality == m_Settings.LaserQuality
                N == [Low |-> 8, Medium |-> 4, High |-> 2, Ultra |-> 1][quality]
                M == [Low |-> 8, Medium |-> 8, High |-> 2, Ultra |-> 1][quality]
                lines == Stride(SimulationOutput(d), N)
            IN /\ m_LaserSources[d].BeamPoints = Stride(SimulationOutput(d), M)
               /\ m_LaserSources[d].ProcessedPoints =
                     IF m_Settings.EnableBeamBrush THEN RemoveDuplicatePoints(lines)
                     ELSE lines

\* Medium quality with beam brush on six simulated points at one position:
\* the line list took indices 0 and 4 and the dedup dropped the second, the
\* beam list took index 0 only and was not deduplicated
C38_Witness ==
    \E d \in DOMAIN m_LaserSources :
        /\ Simulated(d) /\ m_Settings.LaserQuality = "Medium"
        /\ m_Settings.EnableBeamBrush
        /\ Len(SimulationOutput(d)) = 6
        /\ IsSamePosition(SimulationOutput(d)[1], SimulationOutput(d)[5])
        /\ m_LaserSources[d].ProcessedPoints = <<SimulationOutput(d)[1]>>
        /\ m_LaserSources[d].BeamPoints = <<SimulationOutput(d)[1]>>

\* C40: when expanding a device's vertex buffer fails, that tick's upload and
\* draw are skipped and later ticks remain safe: in every reachable state
\* the recorded vertex capacity does not exceed the capacity of the buffer
\* held, and no upload or draw is attempted with a missing buffer.
C40_VertexBufferSafe ==
    \A d \in DOMAIN m_LaserSources :
        /\ m_LaserSources[d].VertexCapacity <= m_LaserSources[d].VertexBuffer
        /\ m_LaserSources[d].nullUses = {}

\* the receiver as the constructor left it: not running, socket closed, no
\* group joined, the network library's initialisations all cleaned up, no
\* joinable thread
ReceiverInitial ==
    /\ ~m_Running /\ m_Socket = "INVALID" /\ m_JoinedGroups = <<>>
    /\ wsaRefs = 0 /\ m_ReceiveThread # "joinable"

\* C32: after Stop returns, and after a failed Start, the receiver is back
\* in its initial state; hence a later Start behaves like a first Start, also
\* after any number of Start/Stop rounds: it leaves one initialisation of
\* the network library, an open socket, a joinable thread and exactly the
\* groups a first Start would join.
C32_ReceiverReset ==
    /\ (ctl.pc = "idle" /\ (ctl.op = "Stop" \/ (ctl.op = "Start" /\ ~ctl.ret))) =>
          ReceiverInitial
    /\ (ctl.pc = "idle" /\ ctl.op = "Start" /\ ctl.ret /\ ~ctl.noop) =>
          /\ m_Running /\ m_Socket = "open" /\ wsaRefs = 1
          /\ m_ReceiveThread = "joinable"
          /\ \E pattern \in JoinPatterns :
                m_JoinedGroups =
                    JoinMulticastGroups(<<>>, m_Settings.MaxLaserDevices, pattern)

\* a second receive thread runs: Start succeeded again after a Stop
C32_Witness ==
    /\ trace.spawned = 2 /\ m_Running /\ ctl.pc = "idle" /\ ctl.op = "Start"
    /\ wsaRefs = 1 /\ m_JoinedGroups # <<>>

\* C31: Shutdown stops and joins the receiver thread before it clears the
\* device map and destroys the renderer and the protocol object, so no
\* callback runs against a destroyed buffer or renderer (the map stays empty
\* once cleared); Shutdown on an uninitialised or already shut-down system
\* changes nothing.
C31_ShutdownOrder ==
    /\ []((ctl.op = "Shutdown"
             /\ ctl.pc \in {"shutdown_clear", "shutdown_renderer", "shutdown_protocol",
                            "destroyed"}) =>
            /\ rx.pc \in {"none", "exited"}
            /\ ~m_Running /\ m_ReceiveThread # "joinable" /\ m_Socket = "INVALID"
            /\ ctl.pc # "shutdown_clear" => DOMAIN m_LaserSources = {})
    /\ [][(ctl' # ctl /\ ~ctl.m_Initialized /\ ctl'.op = "Shutdown") =>
            /\ ctl' = [ctl EXCEPT !.op = "Shutdown", !.noop = TRUE]
            /\ UNCHANGED <<constVars, dllStore, protocolVars, m_DataCallback, m_Stats,
                           lockVars, m_LaserSources, rx, tick, env, trace>>]_vars

\* Shutdown ran on a system whose receiver had delivered a batch, and was
\* then called again
C31_Witness ==
    /\ ctl.op = "Shutdown" /\ ctl.pc = "destroyed" /\ ctl.noop
    /\ trace.invoked # <<>> /\ rx.pc = "exited"
    /\ DOMAIN m_LaserSources = {}

=============================================================================
